---------------------------- MODULE Spec2Model ----------------------------
(***************************************************************************)
(* A model of the streaming transcript aggregation and session-state       *)
(* engine: per-speaker language resolution, speaker classification, the    *)
(* transcript renders, the scroll window and session persistence.          *)
(*                                                                         *)
(* Conventions.  A Python Optional value is None (the empty tuple) or      *)
(* Some(v) (a one-element tuple).  A str that the code strips, splits or   *)
(* joins is a sequence of one-character strings.  language_confidence is   *)
(* counted in tenths (0.5 is 5, the default 1.0 is 10).  Dictionaries are  *)
(* functions on the set of their keys.                                     *)
(***************************************************************************)
EXTENDS Integers, Sequences, FiniteSets, TLC

VARIABLES
    speaker_profiles,   \* Session.speaker_profiles: speaker id -> SpeakerProfile
    final_tokens,       \* Session.final_tokens
    segment_count,      \* Session.segment_count
    audio_frames,       \* Session.audio_frames (the number of buffered frames)
    resumed,            \* Session._resumed
    state_file,         \* the content of session_state.json on disk
    saved,              \* the last save_segment call: its files and its outcome
    recv_pc,            \* where Transcriber._receive_messages stands
    res,                \* the message it has in hand: error_code set, finished
    msg_final,          \* its local final_tokens of the message in hand
    msg_non_final,      \* its local non_final_tokens of the message in hand
    non_final_tokens,   \* NegotiationUI._non_final_tokens
    scroll_mode,        \* NegotiationUI._scroll_mode
    scroll_offset,      \* NegotiationUI._scroll_offset
    scroll_total_lines, \* NegotiationUI._scroll_total_lines
    error_message,      \* NegotiationUI._error_message
    running,            \* NegotiationUI._running
    run_pc,             \* where NegotiationUI.run stands
    exit_cause,         \* how its loop was left
    is_running,         \* Transcriber._running, the stop signal of its threads
    ws_open,            \* Transcriber._ws is an open connection
    stream_open,        \* Transcriber._stream is an open capture stream
    commands,           \* a CommandHandler: its _handlers and its last handle_input
    mic_pc,             \* where Transcriber._stream_microphone stands
    input_pc,           \* where NegotiationUI._input_thread_func stands
    audio_open,         \* Transcriber._audio is a live PyAudio handle
    started,            \* how Transcriber.start ended
    op,                 \* the operation that made the last step
    call                \* the last resolve_language call: its token and result

vars == <<speaker_profiles, final_tokens, segment_count, audio_frames, resumed,
          state_file, saved, recv_pc, res, msg_final, msg_non_final, non_final_tokens,
          scroll_mode,
          scroll_offset, scroll_total_lines, error_message, running, run_pc,
          exit_cause, is_running, ws_open, stream_open, commands, mic_pc, input_pc,
          audio_open, started, op, call>>

session_vars == <<speaker_profiles, final_tokens, segment_count, audio_frames, resumed>>
recv_vars == <<recv_pc, res, msg_final, msg_non_final, non_final_tokens>>
ui_vars == <<scroll_mode, scroll_offset, scroll_total_lines, error_message, running>>
thread_vars == <<mic_pc, input_pc, audio_open, started>>
run_vars == <<run_pc, exit_cause, is_running, ws_open, stream_open>>

-----------------------------------------------------------------------------
(* Optional values and small helpers *)

None == << >>
Some(v) == <<v>>
Get(o, default) == IF o = None THEN default ELSE o[1]

Max(a, b) == IF a >= b THEN a ELSE b
Min(a, b) == IF a <= b THEN a ELSE b

IsPrefix(s, t) == Len(s) <= Len(t) /\ SubSeq(t, 1, Len(s)) = s

Range(s) == {s[i] : i \in DOMAIN s}

RECURSIVE SumOver(_, _)
SumOver(f, keys) ==
    IF keys = {} THEN 0
    ELSE LET k == CHOOSE k \in keys : TRUE
         IN f[k] + SumOver(f, keys \ {k})

-----------------------------------------------------------------------------
(* Program constants *)

LANGUAGE_CONFIDENCE_THRESHOLD == 5
DEFAULT_CONFIDENCE == 10
MIN_SAMPLES_FOR_LABELING == 10
SCROLL_PAGE_SIZE == 20

\* The translation target the service is configured with.
target_language == "en"

-----------------------------------------------------------------------------
(* SpeakerProfile *)

\* SpeakerProfile.__init__
SpeakerProfile(speaker_id) ==
    [speaker_id |-> speaker_id,
     language_counts |-> << >>,
     last_language |-> None,
     total_samples |-> 0]

\* defaultdict(int).__getitem__ followed by += 1
Increment(counts, key) ==
    IF key \in DOMAIN counts
    THEN [counts EXCEPT ![key] = @ + 1]
    ELSE counts @@ (key :> 1)

\* dict.get(key, 0)
CountOf(counts, key) == IF key \in DOMAIN counts THEN counts[key] ELSE 0

\* A faulty add_sample that leaves last_language as it was.
add_sample_keeps_last(profile, language) ==
    [profile EXCEPT !.language_counts = Increment(@, language),
                    !.total_samples = @ + 1]

add_sample(profile, language) ==
    [profile EXCEPT !.language_counts = Increment(@, language),
                    !.last_language = Some(language),
                    !.total_samples = @ + 1]

\* A faulty get_speaker_type without the MIN_SAMPLES_FOR_LABELING guard.
get_speaker_type_unguarded(profile) ==
    LET en_count == CountOf(profile.language_counts, "en")
        zh_count == CountOf(profile.language_counts, "zh")
        total == en_count + zh_count
    IN IF total = 0 THEN None
       ELSE IF 5 * en_count >= 4 * total THEN Some("English")
       ELSE IF 5 * zh_count >= 4 * total THEN Some("Chinese")
       ELSE Some("Bilingual")

\* A faulty get_speaker_type whose ratio tests are strict (> 0.8).
get_speaker_type_strict(profile) ==
    IF profile.total_samples < MIN_SAMPLES_FOR_LABELING THEN None
    ELSE LET en_count == CountOf(profile.language_counts, "en")
             zh_count == CountOf(profile.language_counts, "zh")
             total == en_count + zh_count
         IN IF total = 0 THEN None
            ELSE IF 5 * en_count > 4 * total THEN Some("English")
            ELSE IF 5 * zh_count > 4 * total THEN Some("Chinese")
            ELSE Some("Bilingual")

\* A faulty get_speaker_type with no "Bilingual" branch.
get_speaker_type_no_bilingual(profile) ==
    IF profile.total_samples < MIN_SAMPLES_FOR_LABELING THEN None
    ELSE LET en_count == CountOf(profile.language_counts, "en")
             zh_count == CountOf(profile.language_counts, "zh")
             total == en_count + zh_count
         IN IF total = 0 THEN None
            ELSE IF 5 * en_count >= 4 * total THEN Some("English")
            ELSE IF 5 * zh_count >= 4 * total THEN Some("Chinese")
            ELSE None

\* en_count / total >= 0.8 on floats decides as 5 * en_count >= 4 * total on
\* integers: a quotient of counts below 0.8 is further from it than a rounding.
get_speaker_type(profile) ==
    IF profile.total_samples < MIN_SAMPLES_FOR_LABELING THEN None
    ELSE LET en_count == CountOf(profile.language_counts, "en")
             zh_count == CountOf(profile.language_counts, "zh")
             total == en_count + zh_count
         IN IF total = 0 THEN None
            ELSE IF 5 * en_count >= 4 * total THEN Some("English")
            ELSE IF 5 * zh_count >= 4 * total THEN Some("Chinese")
            ELSE Some("Bilingual")

get_label(profile) ==
    LET speaker_type == get_speaker_type(profile)
    IN IF speaker_type # None
       THEN speaker_type[1] \o " Speaker " \o ToString(profile.speaker_id)
       ELSE "Speaker " \o ToString(profile.speaker_id)

\* Session.get_speaker_profile: the profile map after the call
get_speaker_profile(profiles, speaker_id) ==
    IF speaker_id \in DOMAIN profiles THEN profiles
    ELSE profiles @@ (speaker_id :> SpeakerProfile(speaker_id))

-----------------------------------------------------------------------------
(* resolve_language: the returned language and the profile map it leaves *)

\* A faulty resolve_language that records the sample on the low-confidence path too.
resolve_language_always_samples(token, profiles) ==
    LET speaker == token.speaker
        language == token.language
    IN IF speaker = None
       THEN [result |-> Get(language, "en"), speaker_profiles |-> profiles]
       ELSE LET created == get_speaker_profile(profiles, speaker[1])
                profile == created[speaker[1]]
                last_lang == profile.last_language
            IN IF language # None
               THEN [result |-> Get(last_lang, language[1]),
                     speaker_profiles |->
                         [created EXCEPT ![speaker[1]] = add_sample(profile, language[1])]]
               ELSE [result |-> Get(last_lang, "en"), speaker_profiles |-> created]

\* A faulty resolve_language that opens a profile for a token without a speaker.
resolve_language_profiles_anonymous(token, profiles) ==
    IF token.speaker = None
    THEN [result |-> Get(token.language, "en"),
          speaker_profiles |-> get_speaker_profile(profiles, 0)]
    ELSE resolve_language_always_samples(token, profiles)

\* A faulty resolve_language that, for a speaker without history, falls back
\* on the last language of another speaker.
resolve_language_shared_history(token, profiles) ==
    IF token.speaker = None
    THEN [result |-> Get(token.language, "en"), speaker_profiles |-> profiles]
    ELSE LET created == get_speaker_profile(profiles, token.speaker[1])
             profile == created[token.speaker[1]]
             heard == {o \in DOMAIN created : created[o].last_language # None}
             last_lang == IF profile.last_language # None \/ heard = {}
                          THEN profile.last_language
                          ELSE created[CHOOSE o \in heard : \A p \in heard : o <= p].last_language
             confidence == Get(token.language_confidence, DEFAULT_CONFIDENCE)
         IN IF confidence < LANGUAGE_CONFIDENCE_THRESHOLD /\ last_lang # None
            THEN [result |-> last_lang[1], speaker_profiles |-> created]
            ELSE IF token.language # None
            THEN [result |-> token.language[1],
                  speaker_profiles |->
                      [created EXCEPT ![token.speaker[1]] = add_sample(profile, token.language[1])]]
            ELSE IF last_lang # None
            THEN [result |-> last_lang[1], speaker_profiles |-> created]
            ELSE [result |-> "en", speaker_profiles |-> created]

\* A faulty resolve_language that never records a low-confidence token.
resolve_language_low_confidence_unsampled(token, profiles) ==
    IF token.speaker # None
       /\ Get(token.language_confidence, DEFAULT_CONFIDENCE) < LANGUAGE_CONFIDENCE_THRESHOLD
    THEN [result |-> Get(get_speaker_profile(profiles, token.speaker[1])[token.speaker[1]]
                             .last_language, "en"),
          speaker_profiles |-> get_speaker_profile(profiles, token.speaker[1])]
    ELSE resolve_language_always_samples(token, profiles)

resolve_language(token, profiles) ==
    LET speaker == token.speaker
        language == token.language
        confidence == Get(token.language_confidence, DEFAULT_CONFIDENCE)
    IN IF speaker = None
       THEN [result |-> Get(language, "en"), speaker_profiles |-> profiles]
       ELSE LET created == get_speaker_profile(profiles, speaker[1])
                profile == created[speaker[1]]
                last_lang == profile.last_language
            IN IF confidence < LANGUAGE_CONFIDENCE_THRESHOLD /\ last_lang # None
               THEN [result |-> last_lang[1], speaker_profiles |-> created]
               ELSE IF language # None
               THEN [result |-> language[1],
                     speaker_profiles |->
                         [created EXCEPT ![speaker[1]] = add_sample(profile, language[1])]]
               ELSE IF last_lang # None
               THEN [result |-> last_lang[1], speaker_profiles |-> created]
               ELSE [result |-> "en", speaker_profiles |-> created]

-----------------------------------------------------------------------------
(* Tokens.  token.get(key) of an absent key is None, as for a JSON null. *)

Token(text, speaker, language, confidence, is_final, status, source) ==
    [text |-> text, speaker |-> speaker, language |-> language,
     language_confidence |-> confidence, is_final |-> is_final,
     translation_status |-> status, source_language |-> source]

\* token["resolved_language"] = resolved_lang
WithResolved(token, resolved_lang) ==
    [text |-> token.text, speaker |-> token.speaker, language |-> token.language,
     language_confidence |-> token.language_confidence, is_final |-> token.is_final,
     translation_status |-> token.translation_status,
     source_language |-> token.source_language,
     resolved_language |-> resolved_lang]

is_translation(token) == token.translation_status = "translation"

-----------------------------------------------------------------------------
(* str operations on sequences of characters *)

IsSpace(c) == c \in {" ", "\n", "\t"}

RECURSIVE lstrip(_)
lstrip(s) == IF s # << >> /\ IsSpace(Head(s)) THEN lstrip(Tail(s)) ELSE s

RECURSIVE rstrip(_)
rstrip(s) ==
    IF s # << >> /\ IsSpace(s[Len(s)]) THEN rstrip(SubSeq(s, 1, Len(s) - 1)) ELSE s

strip(s) == rstrip(lstrip(s))

\* len(text.split("\n"))
LineCount(s) == Cardinality({i \in 1..Len(s) : s[i] = "\n"}) + 1

-----------------------------------------------------------------------------
(* NegotiationUI: the speaker header and the plain (scrollback) render *)

NUM_SPEAKER_STYLES == 14

\* _get_speaker_style(speaker)[0]: one emoji per index of SPEAKER_STYLES
SpeakerEmoji(speaker_id) == "emoji" \o ToString(speaker_id % NUM_SPEAKER_STYLES)

\* f"{emoji} {profile.get_label()}: "
SpeakerHeader(profile) ==
    SpeakerEmoji(profile.speaker_id) \o " " \o get_label(profile) \o ": "

\* f" ({translation_buffer.strip()})"
Parenthetical(translation_buffer) == <<" ", "(">> \o strip(translation_buffer) \o <<")">>

\* if original_buffer: parts.append(original_buffer);
\*                     if translation_buffer: parts.append(f" (...)")
PlainFlush(parts, original_buffer, translation_buffer) ==
    IF original_buffer # << >>
    THEN parts \o original_buffer \o
         (IF translation_buffer # << >> THEN Parenthetical(translation_buffer) ELSE << >>)
    ELSE parts

\* A translation whose source language is the translation target is skipped.
IsDropped(token) ==
    is_translation(token) /\ token.source_language = Some(target_language)

\* speaker is not None and speaker != current_speaker
SpeakerChanged(st, token) == token.speaker # None /\ token.speaker # st.current_speaker

PlainState(parts, current_speaker, original_buffer, translation_buffer, profiles, text) ==
    [parts |-> parts, current_speaker |-> current_speaker,
     original_buffer |-> original_buffer, translation_buffer |-> translation_buffer,
     profiles |-> profiles, text |-> text]

\* The header block of _render_transcript_plain, once the profile is fetched:
\* flush, paragraph break, header, text.lstrip().
PlainHeader(st, token, profiles) ==
    PlainState(PlainFlush(st.parts, st.original_buffer, st.translation_buffer)
                   \o (IF st.current_speaker # None THEN <<"\n", "\n">> ELSE << >>)
                   \o <<SpeakerHeader(profiles[token.speaker[1]])>>,
               token.speaker, << >>, << >>, profiles, lstrip(token.text))

\* "Speaker changed - flush buffers, start new paragraph"; text is the token's
\* text as the accumulation below will see it.
PlainSpeakerChange(st, token) ==
    IF SpeakerChanged(st, token)
    THEN PlainHeader(st, token, get_speaker_profile(st.profiles, token.speaker[1]))
    ELSE [st EXCEPT !.text = token.text]

\* "Accumulate text"
PlainAccumulate(st, token) ==
    IF is_translation(token)
    THEN [st EXCEPT !.translation_buffer = @ \o st.text]
    ELSE IF st.translation_buffer # << >>
    THEN [st EXCEPT !.parts = @ \o st.original_buffer
                                \o Parenthetical(st.translation_buffer),
                    !.original_buffer = st.text,
                    !.translation_buffer = << >>]
    ELSE [st EXCEPT !.original_buffer = @ \o st.text]

\* One iteration of the loop of _render_transcript_plain.
PlainStep(st, token) ==
    IF IsDropped(token) THEN st
    ELSE PlainAccumulate(PlainSpeakerChange(st, token), token)

RECURSIVE PlainLoop(_, _)
PlainLoop(st, tokens) ==
    IF tokens = << >> THEN st ELSE PlainLoop(PlainStep(st, Head(tokens)), Tail(tokens))

\* "Final flush" and return "".join(parts)
PlainResult(st) ==
    [text |-> PlainFlush(st.parts, st.original_buffer, st.translation_buffer),
     speaker_profiles |-> st.profiles]

\* _render_transcript_plain: the text, and the profile map the pass leaves
_render_transcript_plain(tokens, profiles) ==
    PlainResult(PlainLoop(PlainState(<< >>, None, << >>, << >>, profiles, << >>), tokens))

-----------------------------------------------------------------------------
(* NegotiationUI: the live styled render.  A rich Text is a sequence of     *)
(* segments, each a run of characters with its style.                      *)

DEFAULT_LANGUAGE_COLOR == "#d4af37"

\* LANGUAGE_COLORS.get(language, DEFAULT_LANGUAGE_COLOR), for the languages of the model
_get_language_color(language) ==
    CASE language = "en" -> "white"
      [] language = "zh" -> "#c41e3a"
      [] language = "he" -> "#b87333"
      [] OTHER -> DEFAULT_LANGUAGE_COLOR

Segment(chars, style) == [text |-> chars, style |-> style]

\* The two branches of _flush_buffers, with the two style prefixes.
FlushStyled(text, original, translation, lang_color, prefix) ==
    text
    \o (IF original # << >>
        THEN <<Segment(original, prefix \o lang_color)>> ELSE << >>)
    \o (IF translation # << >>
        THEN <<Segment(<<" ", "(">>, "dim"),
               Segment(strip(translation), prefix \o "white"),
               Segment(<<")">>, "dim")>>
        ELSE << >>)

_flush_buffers(text, original, translation, lang, is_final) ==
    IF original = << >> /\ translation = << >> THEN text
    ELSE FlushStyled(text, original, translation,
                     IF lang # None THEN _get_language_color(lang[1])
                     ELSE DEFAULT_LANGUAGE_COLOR,
                     IF is_final THEN "" ELSE "dim italic ")

\* _get_speaker_style(speaker)[1]: one color per index of SPEAKER_STYLES
SpeakerColor(speaker_id) == "color" \o ToString(speaker_id % NUM_SPEAKER_STYLES)

StyledState(text, current_speaker, original_buffer, translation_buffer, current_lang, buffer_is_final, profiles, token_text) ==
    [text |-> text, current_speaker |-> current_speaker,
     original_buffer |-> original_buffer, translation_buffer |-> translation_buffer,
     current_lang |-> current_lang, buffer_is_final |-> buffer_is_final,
     profiles |-> profiles, token_text |-> token_text]

\* st.text after _flush_buffers of the pending buffers
StyledFlush(st) ==
    _flush_buffers(st.text, st.original_buffer, st.translation_buffer,
                   st.current_lang, st.buffer_is_final)

\* The header block of _render_transcript, once the profile is fetched.
StyledHeader(st, token, profiles) ==
    StyledState(StyledFlush(st)
                    \o (IF st.current_speaker # None
                        THEN <<Segment(<<"\n", "\n">>, "")>> ELSE << >>)
                    \o <<Segment(<<SpeakerHeader(profiles[token.speaker[1]])>>,
                                 "bold " \o SpeakerColor(token.speaker[1]))>>,
                token.speaker, << >>, << >>, token.language, TRUE, profiles,
                lstrip(token.text))

\* "Speaker changed - flush buffers, start new paragraph"
StyledSpeakerChange(st, token) ==
    IF SpeakerChanged(st, token)
    THEN StyledHeader(st, token, get_speaker_profile(st.profiles, token.speaker[1]))
    ELSE [st EXCEPT !.token_text = token.text]

\* "Track if buffer contains non-final content"
StyledTrackFinal(st, token) ==
    IF ~Get(token.is_final, TRUE) THEN [st EXCEPT !.buffer_is_final = FALSE] ELSE st

\* "Accumulate text"
StyledAccumulate(st, token) ==
    IF is_translation(token)
    THEN [st EXCEPT !.translation_buffer = @ \o st.token_text]
    ELSE IF st.translation_buffer # << >>
    THEN [st EXCEPT !.text = StyledFlush(st),
                    !.original_buffer = st.token_text,
                    !.translation_buffer = << >>,
                    !.buffer_is_final = Get(token.is_final, TRUE),
                    !.current_lang = token.language]
    ELSE [st EXCEPT !.original_buffer = @ \o st.token_text,
                    !.current_lang = token.language]

\* One iteration of the loop of _render_transcript.
StyledStep(st, token) ==
    IF IsDropped(token) THEN st
    ELSE StyledAccumulate(StyledTrackFinal(StyledSpeakerChange(st, token), token), token)

RECURSIVE StyledLoop(_, _)
StyledLoop(st, tokens) ==
    IF tokens = << >> THEN st ELSE StyledLoop(StyledStep(st, Head(tokens)), Tail(tokens))

\* "Final flush" and return text
StyledResult(st) == [text |-> StyledFlush(st), speaker_profiles |-> st.profiles]

\* _render_transcript over all_tokens = final_tokens + _non_final_tokens
_render_transcript(all_tokens, profiles) ==
    StyledResult(StyledLoop(StyledState(<< >>, None, << >>, << >>, None, TRUE,
                                        profiles, << >>), all_tokens))

-----------------------------------------------------------------------------
(* Session.render_plain_text *)

\* f"[{language}]": str(None) is "None"
LanguageTag(language) == "[" \o Get(language, "None") \o "]"

TextState(text_parts, current_speaker, current_language, current_is_translation, profiles) ==
    [text_parts |-> text_parts, current_speaker |-> current_speaker,
     current_language |-> current_language,
     current_is_translation |-> current_is_translation, profiles |-> profiles]

\* The header block of render_plain_text, once the profile is fetched.
TextHeader(st, token, profiles) ==
    TextState(st.text_parts
                  \o (IF st.current_speaker # None THEN <<"\n", "\n">> ELSE << >>)
                  \o <<get_label(profiles[token.speaker[1]]) \o ":">>,
              token.speaker, None, FALSE, profiles)

TextSpeakerChange(st, token) ==
    IF SpeakerChanged(st, token)
    THEN TextHeader(st, token, get_speaker_profile(st.profiles, token.speaker[1]))
    ELSE st

\* "Language or translation status changed" ("->" stands for the arrow)
TextAppend(st, token) ==
    IF \/ token.language # None /\ token.language # st.current_language
       \/ is_translation(token) # st.current_is_translation
    THEN [st EXCEPT !.text_parts =
                        @ \o (IF is_translation(token)
                              THEN <<"\n", " ", " ", "->", " ",
                                     LanguageTag(token.language), " ">>
                              ELSE <<"\n", LanguageTag(token.language), " ">>)
                          \o lstrip(token.text),
                    !.current_language = token.language,
                    !.current_is_translation = is_translation(token)]
    ELSE [st EXCEPT !.text_parts = @ \o token.text]

\* One iteration of the loop of render_plain_text.
TextStep(st, token) ==
    IF is_translation(token) /\ token.source_language = Some("en") THEN st
    ELSE TextAppend(TextSpeakerChange(st, token), token)

RECURSIVE TextLoop(_, _)
TextLoop(st, tokens) ==
    IF tokens = << >> THEN st ELSE TextLoop(TextStep(st, Head(tokens)), Tail(tokens))

\* return "".join(text_parts).strip()
TextResult(st) == [text |-> strip(st.text_parts), speaker_profiles |-> st.profiles]

\* render_plain_text: the text, and the profile map the pass leaves
render_plain_text(tokens, profiles) ==
    TextResult(TextLoop(TextState(<< >>, None, None, FALSE, profiles), tokens))

-----------------------------------------------------------------------------
(* Session: the filtered-token queries *)

\* A faulty add_token that puts the token at the front of the log.
add_token_front(tokens, token) == <<token>> \o tokens

\* Session.add_token: the log after the call
add_token(tokens, token) == Append(tokens, token)

get_chinese_tokens(tokens) ==
    LET IsChinese(t) == t.language = Some("zh") IN SelectSeq(tokens, IsChinese)

get_tokens_by_speaker(tokens, speaker_id) ==
    LET BySpeaker(t) == t.speaker = Some(speaker_id) IN SelectSeq(tokens, BySpeaker)

-----------------------------------------------------------------------------
(* run_simple_transcription: the continuous output.  What the loop writes   *)
(* to the terminal is a sequence of characters and control strings.        *)

NUM_SPEAKER_COLORS == 6

\* get_speaker_color: one ANSI color per index of SPEAKER_COLORS
get_speaker_color(speaker_id) == "color" \o ToString(speaker_id % NUM_SPEAKER_COLORS)

\* LANGUAGE_FLAGS.get(language, globe)
get_language_flag(language) ==
    IF language \in {"en", "zh", "he", "ca"} THEN "flag-" \o language ELSE "globe"

\* get_language_flag(language) if language else ""
FlagOf(language) == IF language # None THEN get_language_flag(language[1]) ELSE ""

\* The loop's variables, the session's profiles and log, everything written
\* so far, and the token in hand: its text, its resolved copy, the output
\* being built for it.
SimpleState(written, current_speaker, current_is_translation, current_color, pending_text, profiles, log) ==
    [written |-> written, current_speaker |-> current_speaker,
     current_is_translation |-> current_is_translation,
     current_color |-> current_color, pending_text |-> pending_text,
     profiles |-> profiles, final_tokens |-> log,
     text |-> << >>, resolved |-> None, output |-> << >>]

\* resolved_lang = resolve_language(token, session); token["resolved_language"] = ...
SimpleResolved(st, token, resolution) ==
    [st EXCEPT !.profiles = resolution.speaker_profiles,
               !.resolved = Some(WithResolved(token, resolution.result)),
               !.text = token.text,
               !.output = << >>]

SimpleResolve(st, token) == SimpleResolved(st, token, resolve_language(token, st.profiles))

\* pending_text.count("\n") cursor-up strings
CursorUps(pending_text) ==
    [i \in 1..Cardinality({j \in 1..Len(pending_text) : pending_text[j] = "\n"}) |-> "UP"]

\* "Clear pending non-final text if we have new content"
SimpleClearPending(st) ==
    IF st.pending_text # << >>
    THEN [st EXCEPT !.written = @ \o <<"CLEAR">> \o CursorUps(st.pending_text)
                                  \o <<"CLEAR">>,
                    !.pending_text = << >>]
    ELSE st

\* The header block of the simple output, once the profile is fetched.
SimpleHeader(st, token, profiles) ==
    [st EXCEPT !.output = @ \o (IF st.current_speaker # None
                                THEN <<"RESET", "\n", "\n">> ELSE << >>)
                            \o <<get_speaker_color(token.speaker[1]), "BOLD",
                                 get_label(profiles[token.speaker[1]]) \o ": ",
                                 FlagOf(token.language), "RESET",
                                 get_speaker_color(token.speaker[1]), " ">>,
               !.current_speaker = token.speaker,
               !.current_is_translation = FALSE,
               !.current_color = get_speaker_color(token.speaker[1]),
               !.profiles = profiles,
               !.text = lstrip(@)]

\* "Speaker changed - new paragraph"
SimpleSpeakerChange(st, token) ==
    IF SpeakerChanged(st, token)
    THEN SimpleHeader(st, token, get_speaker_profile(st.profiles, token.speaker[1]))
    ELSE st

\* "Translation line - indent" and "Back from translation"
SimpleTranslationLine(st, token) ==
    IF is_translation(token) /\ ~st.current_is_translation
    THEN [st EXCEPT !.current_is_translation = TRUE,
                    !.output = @ \o <<"\n", " ", " ", "->", " ",
                                      FlagOf(token.language), " ", "ITALIC">>,
                    !.text = lstrip(@)]
    ELSE IF ~is_translation(token) /\ st.current_is_translation
    THEN [st EXCEPT !.current_is_translation = FALSE,
                    !.output = @ \o <<"\n", FlagOf(token.language), " ">>,
                    !.text = lstrip(@)]
    ELSE st

\* "Add the text": a final token joins the log; a non-final one is shown dimmed
\* and remembered as pending.
SimpleWrite(st, token) ==
    IF Get(token.is_final, FALSE)
    THEN [st EXCEPT !.final_tokens = add_token(@, st.resolved[1]),
                    !.written = @ \o st.output \o st.text]
    ELSE [st EXCEPT !.written = @ \o st.output \o <<"DIM">> \o st.text
                                  \o <<"RESET", st.current_color>>,
                    !.pending_text = st.output \o <<"DIM">> \o st.text
                                     \o <<"RESET", st.current_color>>]

\* The token is resolved, and then skipped if it is a translation of English.
SimpleShow(st, token) ==
    IF is_translation(token) /\ token.source_language = Some("en") THEN st
    ELSE SimpleWrite(SimpleTranslationLine(SimpleSpeakerChange(SimpleClearPending(st),
                                                                 token), token), token)

\* One iteration of: for token in res.get("tokens", [])
SimpleStep(st, token) ==
    IF token.text = << >> THEN st ELSE SimpleShow(SimpleResolve(st, token), token)

RECURSIVE SimpleLoop(_, _)
SimpleLoop(st, tokens) ==
    IF tokens = << >> THEN st ELSE SimpleLoop(SimpleStep(st, Head(tokens)), Tail(tokens))

\* run_simple_transcription on a stream of tokens, from a session's profiles
\* and log: what it writes, and the profiles and the log it leaves.
run_simple_transcription(tokens, profiles, log) ==
    SimpleLoop(SimpleState(<< >>, None, FALSE, "RESET", << >>, profiles, log), tokens)

-----------------------------------------------------------------------------
(* Session: the state file.  Its content is absent, text that is no JSON,   *)
(* or a JSON value; a JSON object keeps its members in order, each speaker  *)
(* profile under the decimal string of its speaker id.                     *)

NoFile == [kind |-> "absent"]

\* the int keys that the model's files can hold
IntKeys == 0..9

\* int(sid): None stands for the ValueError of a key that is no integer
ParseInt(key) ==
    IF \E n \in IntKeys : ToString(n) = key
    THEN Some(CHOOSE n \in IntKeys : ToString(n) = key)
    ELSE None

\* A faulty to_dict that writes no last_language.
to_dict_without_last(profile) ==
    [kind |-> "object",
     language_counts |-> profile.language_counts,
     last_language |-> None,
     total_samples |-> profile.total_samples]

\* SpeakerProfile.to_dict
to_dict(profile) ==
    [kind |-> "object",
     language_counts |-> profile.language_counts,
     last_language |-> profile.last_language,
     total_samples |-> profile.total_samples]

\* A faulty from_dict that does not restore total_samples.
from_dict_zero_total(speaker_id, data) ==
    [speaker_id |-> speaker_id,
     language_counts |-> data.language_counts,
     last_language |-> data.last_language,
     total_samples |-> 0]

\* SpeakerProfile.from_dict
from_dict(speaker_id, data) ==
    [speaker_id |-> speaker_id,
     language_counts |-> data.language_counts,
     last_language |-> data.last_language,
     total_samples |-> data.total_samples]

\* sorted(keys) as a sequence
RECURSIVE SortedSeq(_)
SortedSeq(keys) ==
    IF keys = {} THEN << >>
    ELSE LET least == CHOOSE k \in keys : \A j \in keys : k <= j
         IN <<least>> \o SortedSeq(keys \ {least})

\* {sid: profile.to_dict() ...} as json.dump writes it: int keys become strings
DumpProfiles(profiles) ==
    LET order == SortedSeq(DOMAIN profiles)
    IN [i \in 1..Len(order) |-> <<ToString(order[i]), to_dict(profiles[order[i]])>>]

\* The object that Session.save_state dumps.
StateObject(profiles, tokens, count) ==
    [kind |-> "object",
     segment_count |-> count,
     tokens |-> tokens,
     speaker_profiles |-> DumpProfiles(profiles)]

\* The loop over state["speaker_profiles"].items(): the profiles restored, and
\* whether the loop ended without an exception.
RECURSIVE LoadProfiles(_, _)
LoadProfiles(members, profiles) ==
    IF members = << >> THEN [profiles |-> profiles, ok |-> TRUE]
    ELSE LET key == Head(members)[1]
             data == Head(members)[2]
             sid == ParseInt(key)
         IN IF sid = None \/ data.kind # "object"
            THEN [profiles |-> profiles, ok |-> FALSE]
            ELSE LoadProfiles(Tail(members),
                     (sid[1] :> from_dict(sid[1], data))
                     @@ [k \in DOMAIN profiles \ {sid[1]} |-> profiles[k]])

\* Session.__init__ and _load_state: the fields of the opened session
_load_state(file) ==
    LET fresh == [speaker_profiles |-> << >>, final_tokens |-> << >>,
                  segment_count |-> 0, resumed |-> FALSE]
    IN IF file.kind # "object" THEN fresh
       ELSE LET loaded == LoadProfiles(file.speaker_profiles, << >>)
            IN [speaker_profiles |-> loaded.profiles,
                final_tokens |-> file.tokens,
                segment_count |-> file.segment_count,
                resumed |-> loaded.ok]

-----------------------------------------------------------------------------
(* NegotiationUI: scroll mode and key handling.  ui is the record of the    *)
(* fields a handler reads and writes: scroll_mode, scroll_offset,          *)
(* scroll_total_lines, error_message, running, and the profile map (which  *)
(* a render pass reaches through Session.get_speaker_profile).             *)

\* self._scroll_lines = text.split("\n"); self._scroll_total_lines = len(...)
SetScrollContent(ui, rendered) ==
    [ui EXCEPT !.scroll_total_lines = LineCount(rendered.text),
               !.speaker_profiles = rendered.speaker_profiles]

_prepare_scroll_content(ui, tokens) ==
    SetScrollContent(ui, _render_transcript_plain(tokens, ui.speaker_profiles))

\* self._scroll_offset = max(0, self._scroll_total_lines - SCROLL_PAGE_SIZE)
TailPage(ui) ==
    [ui EXCEPT !.scroll_offset = Max(0, ui.scroll_total_lines - SCROLL_PAGE_SIZE)]

\* An _enter_scroll_mode that shows the tail of the content it already had
_enter_scroll_mode_stale(ui, tokens) ==
    IF tokens = << >>
    THEN [ui EXCEPT !.error_message = "No transcript yet"]
    ELSE TailPage([ui EXCEPT !.scroll_mode = TRUE])

_enter_scroll_mode(ui, tokens) ==
    IF tokens = << >>
    THEN [ui EXCEPT !.error_message = "No transcript yet"]
    ELSE TailPage(_prepare_scroll_content([ui EXCEPT !.scroll_mode = TRUE], tokens))

_exit_scroll_mode(ui) == [ui EXCEPT !.scroll_mode = FALSE]

_scroll_up(ui, n) == [ui EXCEPT !.scroll_offset = Max(0, ui.scroll_offset - n)]

\* A faulty _scroll_down without the clamp to the last page.
_scroll_down_unclamped(ui, n) == [ui EXCEPT !.scroll_offset = ui.scroll_offset + n]

_scroll_down(ui, n) ==
    LET max_off == Max(0, ui.scroll_total_lines - SCROLL_PAGE_SIZE)
    IN [ui EXCEPT !.scroll_offset = Min(max_off, ui.scroll_offset + n)]

_scroll_to_top(ui) == [ui EXCEPT !.scroll_offset = 0]

_scroll_to_bottom(ui) ==
    [ui EXCEPT !.scroll_offset = Max(0, ui.scroll_total_lines - SCROLL_PAGE_SIZE)]

_handle_live_key(ui, key, tokens) ==
    IF key = "v" THEN _enter_scroll_mode(ui, tokens)
    ELSE IF key = "q" THEN [ui EXCEPT !.running = FALSE]
    ELSE ui

_handle_scroll_key(ui, key) ==
    IF key \in {"q", "ESC", "v"} THEN _exit_scroll_mode(ui)
    ELSE IF key \in {"j", "DOWN"} THEN _scroll_down(ui, 1)
    ELSE IF key \in {"k", "UP"} THEN _scroll_up(ui, 1)
    ELSE IF key \in {"d", "PAGEDOWN"} THEN _scroll_down(ui, SCROLL_PAGE_SIZE - 2)
    ELSE IF key \in {"u", "PAGEUP"} THEN _scroll_up(ui, SCROLL_PAGE_SIZE - 2)
    ELSE IF key = "g" THEN _scroll_to_top(ui)
    ELSE IF key = "G" THEN _scroll_to_bottom(ui)
    ELSE ui

_handle_key(ui, key, tokens) ==
    IF ui.scroll_mode THEN _handle_scroll_key(ui, key)
    ELSE _handle_live_key(ui, key, tokens)

\* while True: key = self._key_queue.get_nowait(); self._handle_key(key)
RECURSIVE HandleKeys(_, _, _)
HandleKeys(ui, keys, tokens) ==
    IF keys = << >> THEN ui
    ELSE HandleKeys(_handle_key(ui, Head(keys), tokens), Tail(keys), tokens)

\* _build_display: the scroll display, or the live render of the log and the
\* overlay; either ends with _render_status_bar, which clears the error message.
_build_display(ui, tokens, overlay) ==
    [ui EXCEPT !.speaker_profiles =
                   IF ui.scroll_mode THEN @
                   ELSE _render_transcript(tokens \o overlay, @).speaker_profiles,
               !.error_message = ""]

\* "Update scroll content": if self._scroll_mode: self._prepare_scroll_content()
UpdateScrollContent(ui, tokens) ==
    IF ui.scroll_mode THEN _prepare_scroll_content(ui, tokens) ELSE ui

\* One pass of the loop of NegotiationUI.run.
RunLoopBody(ui, keys, tokens, overlay) ==
    _build_display(UpdateScrollContent(HandleKeys(ui, keys, tokens), tokens),
                   tokens, overlay)

-----------------------------------------------------------------------------
(* The state after Session(name, base_dir) found no state file, the UI was  *)
(* built and the transcriber started.                                      *)

-----------------------------------------------------------------------------
(* Session.save_segment and Session._save_audio.  A fault is the file whose *)
(* open raises OSError; an encoder outcome is what subprocess.run does.     *)

Faults == {"none", "json", "txt", "wav", "state"}

\* returncode 0, returncode # 0, TimeoutExpired, FileNotFoundError, and any
\* other OSError of the launch (PermissionError, exec format error)
Encoders == {"ok", "nonzero", "timeout", "missing", "launch"}

DigitChars == <<"0", "1", "2", "3", "4", "5", "6", "7", "8", "9">>

RECURSIVE Decimal(_)
Decimal(n) ==
    IF n < 10 THEN <<DigitChars[n + 1]>>
    ELSE Append(Decimal(n \div 10), DigitChars[(n % 10) + 1])

\* f"{n:03d}"
Format03(n) ==
    LET digits == Decimal(n)
    IN IF Len(digits) >= 3 THEN digits
       ELSE [i \in 1..(3 - Len(digits)) |-> "0"] \o digits

\* f"segment_{self.segment_count:03d}_{timestamp}"
BaseName(count) == <<"segment_">> \o Format03(count) \o <<"_", "timestamp">>

PathOf(base_name, ext) == base_name \o <<".", ext>>

\* A save_segment call: its environment, the files it left and its outcome
NoSaved ==
    [fault |-> "none", encoder |-> "ok", base_name |-> << >>, json |-> None,
     txt |-> None, audio |-> {}, frames |-> 0, returned |-> None, raised |-> FALSE]

\* The fields of the session that save_segment reads
SessionState ==
    [speaker_profiles |-> speaker_profiles, final_tokens |-> final_tokens,
     segment_count |-> segment_count, audio_frames |-> audio_frames]

SaveOutcome(count, profiles, file, files) ==
    [segment_count |-> count, speaker_profiles |-> profiles, state_file |-> file,
     saved |-> files]

\* The document of the structured transcript
SegmentJson(session, count) ==
    [segment |-> count,
     tokens |-> session.final_tokens,
     speaker_profiles |->
         [sid \in DOMAIN session.speaker_profiles |->
             [type |-> get_speaker_type(session.speaker_profiles[sid]),
              label |-> get_label(session.speaker_profiles[sid]),
              language_counts |-> session.speaker_profiles[sid].language_counts]]]

\* _save_audio that drops a failure of the WAV write
_save_audio_swallows(base_name, fault, encoder) ==
    IF fault = "wav"
    THEN [raised |-> FALSE, files |-> {}, path |-> Some(PathOf(base_name, "wav"))]
    ELSE IF encoder = "ok"
         THEN [raised |-> FALSE, files |-> {"mp3"}, path |-> Some(PathOf(base_name, "mp3"))]
         ELSE IF encoder = "launch"
              THEN [raised |-> TRUE, files |-> {"wav"}, path |-> None]
              ELSE [raised |-> FALSE, files |-> {"wav"}, path |-> Some(PathOf(base_name, "wav"))]

\* Session._save_audio: the WAV write; ffmpeg; os.remove(wav_path) on
\* returncode 0; TimeoutExpired and FileNotFoundError are caught.
_save_audio(base_name, fault, encoder) ==
    IF fault = "wav"
    THEN [raised |-> TRUE, files |-> {}, path |-> None]
    ELSE IF encoder = "ok"
         THEN [raised |-> FALSE, files |-> {"mp3"}, path |-> Some(PathOf(base_name, "mp3"))]
         ELSE IF encoder = "launch"
              THEN [raised |-> TRUE, files |-> {"wav"}, path |-> None]
              ELSE [raised |-> FALSE, files |-> {"wav"}, path |-> Some(PathOf(base_name, "wav"))]

\* save_segment that returns without the call of save_state
SegmentSaveState_skipped(session, count, profiles, file, files, fault) ==
    IF fault = "state"
    THEN SaveOutcome(count, profiles, file, [files EXCEPT !.raised = TRUE])
    ELSE SaveOutcome(count, profiles, file,
                     [files EXCEPT !.returned = Some(PathOf(files.base_name, "json"))])

\* self.save_state(); return json_path
SegmentSaveState(session, count, profiles, file, files, fault) ==
    IF fault = "state"
    THEN SaveOutcome(count, profiles, file, [files EXCEPT !.raised = TRUE])
    ELSE SaveOutcome(count, profiles, StateObject(profiles, session.final_tokens, count),
                     [files EXCEPT !.returned = Some(PathOf(files.base_name, "json"))])

SegmentAudioDone(session, count, profiles, file, files, audio, fault) ==
    IF audio.raised
    THEN SaveOutcome(count, profiles, file,
                     [files EXCEPT !.audio = audio.files, !.raised = TRUE,
                                   !.frames = IF audio.files = {} THEN 0 ELSE session.audio_frames])
    ELSE SegmentSaveState(session, count, profiles, file,
                          [files EXCEPT !.audio = audio.files, !.frames = session.audio_frames],
                          fault)

\* if self.audio_frames: audio_path = self._save_audio(base_name)
SegmentAudio(session, count, profiles, file, files, fault, encoder) ==
    IF session.audio_frames > 0
    THEN SegmentAudioDone(session, count, profiles, file, files,
                          _save_audio(files.base_name, fault, encoder), fault)
    ELSE SegmentSaveState(session, count, profiles, file, files, fault)

SegmentRendered(session, count, file, files, rendered, fault, encoder) ==
    SegmentAudio(session, count, rendered.speaker_profiles, file,
                 [files EXCEPT !.txt = Some(rendered.text)], fault, encoder)

\* with open(txt_path, "w") as f: f.write(self.render_plain_text())
SegmentText(session, count, file, files, fault, encoder) ==
    IF fault = "txt"
    THEN SaveOutcome(count, session.speaker_profiles, file, [files EXCEPT !.raised = TRUE])
    ELSE SegmentRendered(session, count, file, files,
                         render_plain_text(session.final_tokens, session.speaker_profiles),
                         fault, encoder)

\* with open(json_path, "w") as f: json.dump(...)
SegmentTranscript(session, count, file, files, fault, encoder) ==
    IF fault = "json"
    THEN SaveOutcome(count, session.speaker_profiles, file, [files EXCEPT !.raised = TRUE])
    ELSE SegmentText(session, count, file,
                     [files EXCEPT !.json = Some(SegmentJson(session, count))],
                     fault, encoder)

\* Session.save_segment
save_segment(session, file, fault, encoder) ==
    SegmentTranscript(session, session.segment_count + 1, file,
                      [NoSaved EXCEPT !.fault = fault, !.encoder = encoder,
                                      !.base_name = BaseName(session.segment_count + 1)],
                      fault, encoder)

-----------------------------------------------------------------------------
(* CommandHandler (family_chat/commands.py) *)

CommandTypes == {"background", "foreground", "scroll", "save", "quit", "unknown"}

\* CommandHandler.ALIASES
ALIASES ==
    (<<"/", "b">> :> "background") @@ (<<"/", "b", "g">> :> "background")
    @@ (<<"/", "f", "g">> :> "foreground")
    @@ (<<"/", "f", "o", "r", "e", "g", "r", "o", "u", "n", "d">> :> "foreground")
    @@ (<<"/", "v">> :> "scroll") @@ (<<"/", "v", "i", "e", "w">> :> "scroll")
    @@ (<<"/", "s", "c", "r", "o", "l", "l">> :> "scroll")
    @@ (<<"/", "s", "a", "v", "e">> :> "save")
    @@ (<<"/", "q">> :> "quit") @@ (<<"/", "q", "u", "i", "t">> :> "quit")

UpperChars == <<"A", "B", "C", "D", "E", "F", "G", "H", "I", "J", "K", "L", "M", "N", "O", "P", "Q", "R", "S", "T", "U", "V", "W", "X", "Y", "Z">>
LowerChars == <<"a", "b", "c", "d", "e", "f", "g", "h", "i", "j", "k", "l", "m", "n", "o", "p", "q", "r", "s", "t", "u", "v", "w", "x", "y", "z">>

\* str.lower()
lower(s) ==
    [i \in DOMAIN s |->
        IF \E k \in DOMAIN UpperChars : UpperChars[k] = s[i]
        THEN LowerChars[CHOOSE k \in DOMAIN UpperChars : UpperChars[k] = s[i]]
        ELSE s[i]]

\* s.split(maxsplit=1) of a text without surrounding whitespace: the first
\* word, and the rest after the whitespace that follows it
FirstWord(s) ==
    LET spaces == {i \in DOMAIN s : IsSpace(s[i])}
    IN IF spaces = {} THEN s
       ELSE SubSeq(s, 1, (CHOOSE i \in spaces : \A j \in spaces : i <= j) - 1)

RestAfterFirstWord(s) == lstrip(SubSeq(s, Len(FirstWord(s)) + 1, Len(s)))

\* A parse that looks the first word up as it was typed
parse_case_sensitive(input_str) ==
    LET text == strip(input_str)
    IN IF text = << >> \/ Head(text) # "/" THEN None
       ELSE Some([type |-> IF FirstWord(text) \in DOMAIN ALIASES
                           THEN ALIASES[FirstWord(text)] ELSE "unknown",
                  args |-> RestAfterFirstWord(text),
                  raw |-> text])

\* CommandHandler.parse
parse(input_str) ==
    LET text == strip(input_str)
        cmd_str == lower(FirstWord(text))
    IN IF text = << >> \/ Head(text) # "/" THEN None
       ELSE Some([type |-> IF cmd_str \in DOMAIN ALIASES THEN ALIASES[cmd_str] ELSE "unknown",
                  args |-> RestAfterFirstWord(text),
                  raw |-> text])

\* CommandHandler.execute: the handler that is called, if one is registered
execute(handlers, cmd) == IF cmd.type \in handlers THEN Some(cmd.type) ELSE None

\* CommandHandler.handle_input
handle_input(handlers, input_str) ==
    LET cmd == parse(input_str)
    IN IF cmd = None
       THEN [input |-> input_str, command |-> None, was_command |-> FALSE, invoked |-> None]
       ELSE [input |-> input_str, command |-> cmd, was_command |-> TRUE,
             invoked |-> execute(handlers, cmd[1])]

\* A CommandHandler after __init__
NoCommands ==
    [_handlers |-> {},
     last |-> [input |-> << >>, command |-> None, was_command |-> FALSE, invoked |-> None]]

NoCall == [token |-> None, resolved |-> None]

\* no message received yet
NoMessage == [error_code |-> FALSE, finished |-> FALSE]

Init ==
    /\ speaker_profiles = << >>
    /\ final_tokens = << >>
    /\ segment_count = 0
    /\ audio_frames = 0
    /\ resumed = FALSE
    /\ state_file = NoFile
    /\ saved = NoSaved
    /\ recv_pc = "recv"
    /\ res = NoMessage
    /\ msg_final = << >>
    /\ msg_non_final = << >>
    /\ non_final_tokens = << >>
    /\ scroll_mode = FALSE
    /\ scroll_offset = 0
    /\ scroll_total_lines = 0
    /\ error_message = ""
    /\ running = TRUE
    /\ run_pc = "loop"
    /\ exit_cause = ""
    /\ is_running = TRUE
    /\ ws_open = TRUE
    /\ stream_open = TRUE
    /\ commands = NoCommands
    /\ mic_pc = "read"
    /\ input_pc = "loop"
    /\ audio_open = TRUE
    /\ started = "ok"
    /\ op = "init"
    /\ call = NoCall

-----------------------------------------------------------------------------
(* The receiver activity: Transcriber._receive_messages.  The tokens of a   *)
(* message are drawn one by one as the loop reaches them.                   *)

\* A receiver that goes on to the tokens of a message that carries an error.
ReceiveMessage_ignores_error(has_error, finished) ==
    /\ recv_pc = "recv"
    /\ is_running
    /\ res' = [error_code |-> has_error, finished |-> finished]
    /\ recv_pc' = "tokens"
    /\ msg_final' = << >>
    /\ msg_non_final' = << >>
    /\ error_message' = IF has_error THEN "error_code - error_message" ELSE error_message
    /\ op' = "recv"
    /\ call' = NoCall
    /\ UNCHANGED <<thread_vars, commands, run_vars, session_vars, state_file, saved, non_final_tokens, scroll_mode,
                   scroll_offset, scroll_total_lines, running>>

\* A receiver that tests "finished" before the token loop.
ReceiveMessage_finished_first(has_error, finished) ==
    /\ recv_pc = "recv"
    /\ is_running
    /\ res' = [error_code |-> has_error, finished |-> finished]
    /\ error_message' = IF has_error THEN "error_code - error_message" ELSE error_message
    /\ recv_pc' = IF has_error \/ finished THEN "done" ELSE "tokens"
    /\ msg_final' = IF has_error THEN msg_final ELSE << >>
    /\ msg_non_final' = IF has_error THEN msg_non_final ELSE << >>
    /\ op' = "recv"
    /\ call' = NoCall
    /\ UNCHANGED <<thread_vars, commands, run_vars, session_vars, state_file, saved, non_final_tokens, scroll_mode,
                   scroll_offset, scroll_total_lines, running>>

\* message = self._ws.recv(); the error_code check
ReceiveMessage(has_error, finished) ==
    /\ recv_pc = "recv"
    /\ is_running
    /\ res' = [error_code |-> has_error, finished |-> finished]
    /\ IF has_error
       THEN /\ error_message' = "error_code - error_message"
            /\ recv_pc' = "done"
            /\ UNCHANGED <<msg_final, msg_non_final>>
       ELSE /\ recv_pc' = "tokens"
            /\ msg_final' = << >>
            /\ msg_non_final' = << >>
            /\ UNCHANGED error_message
    /\ op' = "recv"
    /\ call' = NoCall
    /\ UNCHANGED <<thread_vars, commands, run_vars, session_vars, state_file, saved, non_final_tokens, scroll_mode,
                   scroll_offset, scroll_total_lines, running>>

\* A faulty loop body that resolves the token a second time after the append.
ProcessToken_resolves_twice(token, max_log, max_samples, max_overlay) ==
    /\ recv_pc = "tokens"
    /\ token.text # << >>
    /\ Get(token.is_final, FALSE)
    /\ Len(final_tokens) < max_log
    /\ \E first \in {resolve_language(token, speaker_profiles)} :
        \E second \in {resolve_language(token, first.speaker_profiles)} :
           /\ \A sid \in DOMAIN second.speaker_profiles :
                  second.speaker_profiles[sid].total_samples <= max_samples
           /\ speaker_profiles' = second.speaker_profiles
           /\ call' = [token |-> Some(token), resolved |-> Some(second.result)]
           /\ final_tokens' = add_token(final_tokens, WithResolved(token, second.result))
           /\ msg_final' = Append(msg_final, WithResolved(token, second.result))
    /\ op' = "token"
    /\ UNCHANGED <<thread_vars, commands, run_vars, segment_count, audio_frames, resumed, state_file, saved, recv_pc,
                   res, msg_non_final, non_final_tokens, ui_vars>>

\* One iteration of: for token in res.get("tokens", [])
ProcessToken(token, max_log, max_samples, max_overlay) ==
    /\ recv_pc = "tokens"
    /\ IF token.text = << >>
       THEN /\ call' = [token |-> Some(token), resolved |-> None]
            /\ UNCHANGED <<speaker_profiles, final_tokens, msg_final, msg_non_final>>
       ELSE LET resolution == resolve_language(token, speaker_profiles)
                resolved == WithResolved(token, resolution.result)
            IN /\ \A sid \in DOMAIN resolution.speaker_profiles :
                      resolution.speaker_profiles[sid].total_samples <= max_samples
               /\ speaker_profiles' = resolution.speaker_profiles
               /\ call' = [token |-> Some(token), resolved |-> Some(resolution.result)]
               /\ IF Get(token.is_final, FALSE)
                  THEN /\ Len(final_tokens) < max_log
                       /\ final_tokens' = add_token(final_tokens, resolved)
                       /\ msg_final' = Append(msg_final, resolved)
                       /\ UNCHANGED msg_non_final
                  ELSE /\ Len(msg_non_final) < max_overlay
                       /\ msg_non_final' = Append(msg_non_final, resolved)
                       /\ UNCHANGED <<final_tokens, msg_final>>
    /\ op' = "token"
    /\ UNCHANGED <<thread_vars, commands, run_vars, segment_count, audio_frames, resumed, state_file, saved, recv_pc,
                   res, non_final_tokens, ui_vars>>

\* A faulty callback that adds the message's non-final tokens to the overlay.
NotifyTokens_extends_overlay ==
    /\ recv_pc = "tokens"
    /\ non_final_tokens' = non_final_tokens \o msg_non_final
    /\ recv_pc' = IF res.finished THEN "done" ELSE "recv"
    /\ op' = "notify"
    /\ call' = NoCall
    /\ UNCHANGED <<thread_vars, commands, run_vars, session_vars, state_file, saved, res, msg_final, msg_non_final,
                   ui_vars>>

\* self.on_tokens(final_tokens, non_final_tokens); if res.get("finished"): break
NotifyTokens ==
    /\ recv_pc = "tokens"
    /\ non_final_tokens' = msg_non_final
    /\ recv_pc' = IF res.finished THEN "done" ELSE "recv"
    /\ op' = "notify"
    /\ call' = NoCall
    /\ UNCHANGED <<thread_vars, commands, run_vars, session_vars, state_file, saved, res, msg_final, msg_non_final,
                   ui_vars>>

-----------------------------------------------------------------------------
(* The audio producer, the render/input activity and the Session operations *)

\* Transcriber._stream_microphone: self.session.add_audio_frame(data)
AddAudioFrame(max_frames) ==
    /\ is_running /\ stream_open /\ ws_open
    /\ audio_frames < max_frames
    /\ audio_frames' = audio_frames + 1
    /\ op' = "audio"
    /\ call' = NoCall
    /\ UNCHANGED <<thread_vars, commands, run_vars, speaker_profiles, final_tokens, segment_count, resumed,
                   state_file, saved, recv_vars, ui_vars>>

\* The fields of the UI and the session that a pass of the run loop touches.
UiState ==
    [scroll_mode |-> scroll_mode, scroll_offset |-> scroll_offset,
     scroll_total_lines |-> scroll_total_lines, error_message |-> error_message,
     running |-> running, speaker_profiles |-> speaker_profiles]

\* One pass of the loop of NegotiationUI.run, with the keys found in the queue.
Poll(keys) ==
    /\ run_pc = "loop"
    /\ running /\ is_running
    /\ \E after \in {RunLoopBody(UiState, keys, final_tokens, non_final_tokens)} :
          /\ scroll_mode' = after.scroll_mode
          /\ scroll_offset' = after.scroll_offset
          /\ scroll_total_lines' = after.scroll_total_lines
          /\ error_message' = after.error_message
          /\ running' = after.running
          /\ speaker_profiles' = after.speaker_profiles
    /\ op' = "poll"
    /\ call' = NoCall
    /\ UNCHANGED <<thread_vars, commands, run_vars, final_tokens, segment_count, audio_frames, resumed, state_file,
                   saved, recv_vars>>

\* Session.save_state
SaveState ==
    /\ state_file' = StateObject(speaker_profiles, final_tokens, segment_count)
    /\ op' = "save_state"
    /\ call' = NoCall
    /\ UNCHANGED <<thread_vars, commands, run_vars, session_vars, saved, recv_vars, ui_vars>>

\* Session.save_segment in an environment: fault names the file whose open
\* fails ("none" for no failure), encoder the outcome of the ffmpeg call.
SaveSegmentEnv(max_segments, fault, encoder) ==
    /\ segment_count < max_segments
    /\ \E after \in {save_segment(SessionState, state_file, fault, encoder)} :
          /\ segment_count' = after.segment_count
          /\ speaker_profiles' = after.speaker_profiles
          /\ state_file' = after.state_file
          /\ saved' = after.saved
    /\ op' = "save_segment"
    /\ call' = NoCall
    /\ UNCHANGED <<thread_vars, commands, run_vars, final_tokens, audio_frames, resumed, recv_vars, ui_vars>>

\* Session.save_segment where every write succeeds and the encoder exits 0
SaveSegment(max_segments) == SaveSegmentEnv(max_segments, "none", "ok")

\* A new run: Session(name, base_dir) on the same directory, a new UI and a
\* new transcriber.
Open ==
    /\ \E loaded \in {_load_state(state_file)} :
          /\ speaker_profiles' = loaded.speaker_profiles
          /\ final_tokens' = loaded.final_tokens
          /\ segment_count' = loaded.segment_count
          /\ resumed' = loaded.resumed
    /\ audio_frames' = 0
    /\ recv_pc' = "recv"
    /\ res' = NoMessage
    /\ msg_final' = << >>
    /\ msg_non_final' = << >>
    /\ non_final_tokens' = << >>
    /\ scroll_mode' = FALSE
    /\ scroll_offset' = 0
    /\ scroll_total_lines' = 0
    /\ error_message' = ""
    /\ running' = TRUE
    /\ run_pc' = "loop"
    /\ exit_cause' = ""
    /\ is_running' = TRUE
    /\ ws_open' = TRUE
    /\ stream_open' = TRUE
    /\ mic_pc' = "read"
    /\ input_pc' = "loop"
    /\ audio_open' = TRUE
    /\ started' = "ok"
    /\ op' = "open"
    /\ call' = NoCall
    /\ UNCHANGED <<commands, state_file, saved>>

\* The state file is replaced from outside the program (a truncated write, an
\* edit, another tool).
ReplaceStateFile(content) ==
    /\ state_file' = content
    /\ op' = "replace_file"
    /\ call' = NoCall
    /\ UNCHANGED <<thread_vars, commands, run_vars, session_vars, saved, recv_vars, ui_vars>>

\* A damaged copy of a state file: text cut short, a JSON array instead of
\* an object, or an object with one profile key or one profile entry replaced.
DamagedFiles(file) ==
    {[kind |-> "unparseable"], [kind |-> "array"]}
    \cup (IF file.kind = "object"
          THEN {[file EXCEPT !.speaker_profiles[i][1] = "abc"] :
                    i \in DOMAIN file.speaker_profiles}
               \cup {[file EXCEPT !.speaker_profiles[i][2] = [kind |-> "string"]] :
                    i \in DOMAIN file.speaker_profiles}
          ELSE {})

\* How the loop of run is left: its condition is false (the quit key has
\* cleared _running, or the transcriber is no longer running), or a
\* KeyboardInterrupt or another exception is raised inside it.
ExitCauses == {"condition", "keyboard_interrupt", "exception"}

LoopExit(cause) ==
    /\ run_pc = "loop"
    /\ cause = "condition" => ~(running /\ is_running)
    /\ run_pc' = "finally"
    /\ exit_cause' = cause
    /\ op' = "exit"
    /\ call' = NoCall
    /\ UNCHANGED <<thread_vars, commands, session_vars, state_file, saved, recv_vars, ui_vars, is_running,
                   ws_open, stream_open>>

\* finally: _stop_keyboard_listener(); _running.clear(); transcriber.stop(),
\* which clears the stop signal of the threads and closes the connection,
\* the capture stream and the audio handle, each under its own try/except.
Teardown ==
    /\ run_pc = "finally"
    /\ running' = FALSE
    /\ is_running' = FALSE
    /\ ws_open' = FALSE
    /\ stream_open' = FALSE
    /\ audio_open' = FALSE
    /\ run_pc' = "save"
    /\ op' = "teardown"
    /\ call' = NoCall
    /\ UNCHANGED <<mic_pc, input_pc, started, commands, session_vars, state_file, saved, recv_vars, scroll_mode,
                   scroll_offset, scroll_total_lines, error_message, exit_cause>>

\* A run that saves a segment whatever the log holds
FinalSave_always(max_segments, fault, encoder) ==
    /\ run_pc = "save"
    /\ segment_count < max_segments
    /\ \E after \in {save_segment(SessionState, state_file, fault, encoder)} :
          /\ segment_count' = after.segment_count
          /\ speaker_profiles' = after.speaker_profiles
          /\ state_file' = after.state_file
          /\ saved' = after.saved
    /\ run_pc' = "exited"
    /\ op' = "final_save"
    /\ call' = NoCall
    /\ UNCHANGED <<thread_vars, commands, final_tokens, audio_frames, resumed, recv_vars, ui_vars, exit_cause,
                   is_running, ws_open, stream_open>>

\* if self.session.final_tokens: path = self.session.save_segment()
FinalSave(max_segments, fault, encoder) ==
    /\ run_pc = "save"
    /\ IF final_tokens # << >>
       THEN /\ segment_count < max_segments
            /\ \E after \in {save_segment(SessionState, state_file, fault, encoder)} :
                  /\ segment_count' = after.segment_count
                  /\ speaker_profiles' = after.speaker_profiles
                  /\ state_file' = after.state_file
                  /\ saved' = after.saved
       ELSE UNCHANGED <<segment_count, speaker_profiles, state_file, saved>>
    /\ run_pc' = "exited"
    /\ op' = "final_save"
    /\ call' = NoCall
    /\ UNCHANGED <<thread_vars, commands, final_tokens, audio_frames, resumed, recv_vars, ui_vars, exit_cause,
                   is_running, ws_open, stream_open>>

\* How _receive_messages leaves its loop without a message: the loop
\* condition is false, recv() raises ConnectionClosedOK, or recv() raises
\* another exception.
ReceiverOutcomes == {"condition", "closed_ok", "exception"}

\* A faulty receiver that reports the exception whatever the stop signal says.
ReceiverEnds_reports_always(outcome) ==
    /\ recv_pc = "recv"
    /\ outcome = "condition" => ~(is_running /\ ws_open)
    /\ recv_pc' = "done"
    /\ error_message' = IF outcome = "exception" THEN "exception" ELSE error_message
    /\ op' = "recv_end"
    /\ call' = NoCall
    /\ UNCHANGED <<thread_vars, commands, run_vars, session_vars, state_file, saved, res, msg_final,
                   msg_non_final, non_final_tokens, scroll_mode, scroll_offset,
                   scroll_total_lines, running>>

\* while self._running.is_set() and self._ws: ... except ConnectionClosedOK:
\* pass; except Exception as e: if self.on_error and self._running.is_set():
\* self.on_error(str(e))
ReceiverEnds(outcome) ==
    /\ recv_pc = "recv"
    /\ outcome = "condition" => ~(is_running /\ ws_open)
    /\ recv_pc' = "done"
    /\ error_message' = IF outcome = "exception" /\ is_running THEN "exception"
                        ELSE error_message
    /\ op' = "recv_end"
    /\ call' = NoCall
    /\ UNCHANGED <<thread_vars, commands, run_vars, session_vars, state_file, saved, res, msg_final,
                   msg_non_final, non_final_tokens, scroll_mode, scroll_offset,
                   scroll_total_lines, running>>

\* _stream_microphone: data = self._stream.read(...) under the loop condition
MicRead(max_frames) ==
    /\ mic_pc = "read"
    /\ is_running /\ stream_open /\ ws_open
    /\ audio_frames < max_frames
    /\ mic_pc' = "frame"
    /\ op' = "mic_read"
    /\ call' = NoCall
    /\ UNCHANGED <<input_pc, audio_open, started, commands, run_vars, session_vars, state_file,
                   saved, recv_vars, ui_vars>>

\* self.session.add_audio_frame(data); self._ws.send(data), which raises on a
\* closed connection: the exception ends the loop and is dropped.
MicFrame ==
    /\ mic_pc = "frame"
    /\ audio_frames' = audio_frames + 1
    /\ mic_pc' = IF ws_open THEN "read" ELSE "done"
    /\ op' = "audio"
    /\ call' = NoCall
    /\ UNCHANGED <<input_pc, audio_open, started, commands, run_vars, speaker_profiles,
                   final_tokens, segment_count, resumed, state_file, saved, recv_vars, ui_vars>>

\* The loop condition is false, or read() raises on the closed stream (the
\* exception is dropped); then the end-of-audio send under its own try.
MicEnds ==
    /\ mic_pc = "read"
    /\ ~(is_running /\ stream_open /\ ws_open)
    /\ mic_pc' = "done"
    /\ op' = "mic_end"
    /\ call' = NoCall
    /\ UNCHANGED <<input_pc, audio_open, started, commands, run_vars, session_vars, state_file,
                   saved, recv_vars, ui_vars>>

\* _input_thread_func: while self._running.is_set(), with sleeps of at most 0.1 s
InputThreadEnds ==
    /\ input_pc = "loop"
    /\ ~running
    /\ input_pc' = "done"
    /\ op' = "input_end"
    /\ call' = NoCall
    /\ UNCHANGED <<mic_pc, audio_open, started, commands, run_vars, session_vars, state_file,
                   saved, recv_vars, ui_vars>>

\* The ways Transcriber.start runs: _find_microphone returns None, the
\* capture stream cannot be opened, connect() raises, the send of the
\* configuration raises, or everything succeeds.
StartOutcomes == {"no_microphone", "open_fails", "connect_fails", "send_fails", "ok"}

\* NegotiationUI.run up to its loop: self.transcriber.start() and, when it
\* returns False, `return`.  _find_microphone creates the PyAudio handle
\* first; the no-microphone path returns without terminating it;
\* self._audio.open is outside the try, so its exception leaves start (and
\* run, which has not entered its try/finally); a failure inside the try
\* calls self.stop() and then on_error.
Start(outcome) ==
    /\ run_pc = "start"
    /\ audio_open' = (outcome \in {"no_microphone", "open_fails", "ok"})
    /\ stream_open' = (outcome = "ok")
    /\ ws_open' = (outcome = "ok")
    /\ is_running' = (outcome = "ok")
    /\ started' = CASE outcome = "ok" -> "ok"
                    [] outcome = "open_fails" -> "raised"
                    [] OTHER -> "failed"
    /\ error_message' = CASE outcome = "no_microphone" -> "No microphone found"
                          [] outcome \in {"connect_fails", "send_fails"} -> "exception"
                          [] OTHER -> error_message
    /\ mic_pc' = IF outcome = "ok" THEN "read" ELSE mic_pc
    /\ recv_pc' = IF outcome = "ok" THEN "recv" ELSE recv_pc
    /\ input_pc' = IF outcome = "ok" THEN "loop" ELSE input_pc
    /\ run_pc' = IF outcome = "ok" THEN "loop" ELSE "exited"
    /\ op' = "start"
    /\ call' = NoCall
    /\ UNCHANGED <<commands, session_vars, state_file, saved, res, msg_final, msg_non_final,
                   non_final_tokens, scroll_mode, scroll_offset, scroll_total_lines, running,
                   exit_cause>>

\* save_segment statement by statement, as the other threads see it.
\* if self.session.final_tokens: save_segment(): self.segment_count += 1 and
\* the json.dump of the structured transcript.
FinalSaveTranscript(max_segments) ==
    /\ run_pc = "save"
    /\ IF final_tokens # << >>
       THEN /\ segment_count < max_segments
            /\ segment_count' = segment_count + 1
            /\ saved' = [NoSaved EXCEPT !.base_name = BaseName(segment_count + 1),
                                        !.json = Some(SegmentJson(SessionState, segment_count + 1))]
            /\ run_pc' = "save_txt"
       ELSE /\ run_pc' = "exited"
            /\ UNCHANGED <<segment_count, saved>>
    /\ op' = "save_json"
    /\ call' = NoCall
    /\ UNCHANGED <<thread_vars, commands, speaker_profiles, final_tokens, audio_frames, resumed,
                   state_file, recv_vars, ui_vars, exit_cause, is_running, ws_open, stream_open>>

\* f.write(self.render_plain_text())
FinalSaveText ==
    /\ run_pc = "save_txt"
    /\ \E rendered \in {render_plain_text(final_tokens, speaker_profiles)} :
          /\ saved' = [saved EXCEPT !.txt = Some(rendered.text)]
          /\ speaker_profiles' = rendered.speaker_profiles
    /\ run_pc' = "save_audio"
    /\ op' = "save_txt"
    /\ call' = NoCall
    /\ UNCHANGED <<thread_vars, commands, final_tokens, segment_count, audio_frames, resumed,
                   state_file, recv_vars, ui_vars, exit_cause, is_running, ws_open, stream_open>>

\* if self.audio_frames: audio_path = self._save_audio(base_name)
FinalSaveAudio ==
    /\ run_pc = "save_audio"
    /\ saved' = IF audio_frames > 0
                THEN [saved EXCEPT !.audio = _save_audio(saved.base_name, "none", "ok").files,
                                   !.frames = audio_frames]
                ELSE saved
    /\ run_pc' = "save_state"
    /\ op' = "save_audio"
    /\ call' = NoCall
    /\ UNCHANGED <<thread_vars, commands, session_vars, state_file, recv_vars, ui_vars,
                   exit_cause, is_running, ws_open, stream_open>>

\* self.save_state(); return json_path
FinalSaveStateFile ==
    /\ run_pc = "save_state"
    /\ state_file' = StateObject(speaker_profiles, final_tokens, segment_count)
    /\ saved' = [saved EXCEPT !.returned = Some(PathOf(saved.base_name, "json"))]
    /\ run_pc' = "exited"
    /\ op' = "final_save"
    /\ call' = NoCall
    /\ UNCHANGED <<thread_vars, commands, session_vars, recv_vars, ui_vars, exit_cause,
                   is_running, ws_open, stream_open>>

\* Where the process can stop around the write of save_state: before
\* open(state_file, "w") has truncated the file, after the truncation with
\* only a part of the document written, or after the file was closed.
CrashPoints == {"before_open", "midway", "after_close"}

\* The state file as a stop at the given point of save_state leaves it
CrashedFile(point, file, profiles, tokens, count) ==
    IF point = "before_open" THEN file
    ELSE IF point = "midway" THEN [kind |-> "unparseable"]
    ELSE StateObject(profiles, tokens, count)

\* The process stops while Session.save_state is running; its threads are gone.
SaveStateCrash(point) ==
    /\ run_pc # "crashed"
    /\ state_file' = CrashedFile(point, state_file, speaker_profiles, final_tokens, segment_count)
    /\ run_pc' = "crashed"
    /\ recv_pc' = "done"
    /\ running' = FALSE
    /\ is_running' = FALSE
    /\ ws_open' = FALSE
    /\ stream_open' = FALSE
    /\ op' = "crash"
    /\ call' = NoCall
    /\ UNCHANGED <<thread_vars, commands, session_vars, saved, res, msg_final, msg_non_final, non_final_tokens,
                   scroll_mode, scroll_offset, scroll_total_lines, error_message,
                   exit_cause>>

\* CommandHandler.register
Register(cmd_type, max_handlers) ==
    /\ Cardinality(commands._handlers) < max_handlers
    /\ cmd_type \notin commands._handlers
    /\ commands' = [commands EXCEPT !._handlers = @ \cup {cmd_type}]
    /\ op' = "register"
    /\ call' = NoCall
    /\ UNCHANGED <<thread_vars, session_vars, state_file, saved, recv_vars, ui_vars, run_vars>>

\* CommandHandler.handle_input on a line of user input
HandleInput(input_str) ==
    /\ commands' = [commands EXCEPT !.last = handle_input(commands._handlers, input_str)]
    /\ op' = "handle_input"
    /\ call' = NoCall
    /\ UNCHANGED <<thread_vars, session_vars, state_file, saved, recv_vars, ui_vars, run_vars>>

\* resolve_language(token, session), called on its own
Resolve(token, max_samples) ==
    /\ \E resolution \in {resolve_language(token, speaker_profiles)} :
          /\ \A sid \in DOMAIN resolution.speaker_profiles :
                 resolution.speaker_profiles[sid].total_samples <= max_samples
          /\ speaker_profiles' = resolution.speaker_profiles
          /\ call' = [token |-> Some(token), resolved |-> Some(resolution.result)]
    /\ op' = "resolve"
    /\ UNCHANGED <<thread_vars, commands, run_vars, final_tokens, segment_count, audio_frames, resumed, state_file,
                   saved, recv_vars, ui_vars>>

-----------------------------------------------------------------------------
(* The session specification: the receiver, the render activity and the    *)
(* Session operations on a session directory.                               *)

MaxLog == 2
MaxSamples == 2
MaxOverlay == 1
MaxSegments == 1

SessionTokens ==
    {Token(<<"a">>, Some(1), Some("en"), Some(9), Some(TRUE), "none", None),
     Token(<<"b">>, Some(2), Some("zh"), None, Some(TRUE), "none", None),
     Token(<<"c">>, Some(1), Some("zh"), Some(9), Some(FALSE), "none", None)}

Next ==
    \/ \E has_error, finished \in BOOLEAN : ReceiveMessage(has_error, finished)
    \/ \E token \in SessionTokens : ProcessToken(token, MaxLog, MaxSamples, MaxOverlay)
    \/ NotifyTokens
    \/ Poll(<< >>)
    \/ SaveState
    \/ SaveSegment(MaxSegments)
    \/ Open

Spec == Init /\ [][Next]_vars

-----------------------------------------------------------------------------
(* The resolution specification: resolve_language on every kind of token,   *)
(* against the profiles its own earlier calls have left.                   *)

ResolveMaxSamples == 3

ResolveTokens ==
    {Token(<<"a">>, speaker, language, confidence, Some(TRUE), "none", None) :
        speaker \in {None, Some(1), Some(2)},
        language \in {None, Some("en"), Some("zh")},
        confidence \in {None, Some(4), Some(5)}}

NextResolve == \E token \in ResolveTokens : Resolve(token, ResolveMaxSamples)

SpecResolve == Init /\ [][NextResolve]_vars

-----------------------------------------------------------------------------
(* The classification specification: one speaker's profile grown sample by  *)
(* sample past the labeling threshold, over three languages.               *)

TypeMaxSamples == 11

TypeTokens ==
    {Token(<<"a">>, Some(1), Some(language), None, Some(TRUE), "none", None) :
        language \in {"en", "zh", "he"}}

NextType == \E token \in TypeTokens : Resolve(token, TypeMaxSamples)

SpecType == Init /\ [][NextType]_vars

-----------------------------------------------------------------------------
(* The scroll specification: the receiver feeds a log whose render grows    *)
(* past a page while the run loop handles keys.                            *)

ScrollMaxLog == 2
ScrollMaxKeys == 1

\* One key for each branch of _handle_live_key and _handle_scroll_key, and
\* one key that neither handles.
Keys == {"v", "q", "j", "k", "d", "u", "g", "G", "x"}

KeySeqs(max_keys) == UNION {[1..n -> Keys] : n \in 0..max_keys}

TenLines == [i \in 1..11 |-> IF i = 1 THEN "a" ELSE "\n"]

ScrollTokens ==
    {Token(TenLines, Some(1), Some("en"), Some(9), Some(TRUE), "original", None),
     Token(TenLines, Some(2), Some("zh"), Some(9), Some(TRUE), "original", None),
     Token(<<"b", "\n", "\n">>, Some(2), Some("en"), Some(9), Some(TRUE),
           "translation", Some("zh"))}

NextScroll ==
    \/ \E has_error, finished \in BOOLEAN : ReceiveMessage(has_error, finished)
    \/ \E token \in ScrollTokens : ProcessToken(token, ScrollMaxLog, ScrollMaxLog, 0)
    \/ NotifyTokens
    \/ \E keys \in KeySeqs(ScrollMaxKeys) : Poll(keys)

SpecScroll == Init /\ [][NextScroll]_vars

-----------------------------------------------------------------------------
(* The damaged-file specification: a session directory whose state file is  *)
(* damaged between runs.                                                   *)

ExtMaxLog == 1

ExtTokens ==
    {Token(<<"a">>, Some(1), Some("en"), Some(9), Some(TRUE), "none", None),
     Token(<<"b">>, Some(2), Some("zh"), Some(9), Some(TRUE), "none", None)}

NextExt ==
    \/ \E has_error, finished \in BOOLEAN : ReceiveMessage(has_error, finished)
    \/ \E token \in ExtTokens : ProcessToken(token, ExtMaxLog, ExtMaxLog, 0)
    \/ NotifyTokens
    \/ SaveState
    \/ Open
    \/ \E content \in DamagedFiles(state_file) : ReplaceStateFile(content)

SpecExt == Init /\ [][NextExt]_vars

-----------------------------------------------------------------------------
(* The render specification: the receiver feeds a log of originals and     *)
(* translations, among them translations whose source language is the      *)
(* translation target, while the run loop renders it.                      *)

RenderMaxLog == 2

RenderTokens ==
    {Token(<<"a">>, Some(1), Some("en"), None, Some(TRUE), "original", None),
     Token(<<" ", "b">>, Some(1), Some("en"), None, Some(TRUE), "translation", Some("en")),
     Token(<<"c">>, Some(2), Some("zh"), None, Some(TRUE), "original", None),
     Token(<<" ", "d">>, Some(2), Some("en"), None, Some(TRUE), "translation", Some("zh")),
     Token(<<"e">>, Some(2), Some("zh"), None, Some(TRUE), "translation", Some("en")),
     Token(<<"f">>, Some(1), Some("en"), None, Some(FALSE), "translation", Some("en")),
     Token(<<"g">>, Some(2), Some("zh"), None, Some(FALSE), "original", None),
     Token(<<" ", "h">>, Some(1), None, None, Some(TRUE), "original", None)}

NextRender ==
    \/ \E has_error, finished \in BOOLEAN : ReceiveMessage(has_error, finished)
    \/ \E token \in RenderTokens :
           ProcessToken(token, RenderMaxLog, 2 * RenderMaxLog, 1)
    \/ NotifyTokens
    \/ Poll(<< >>)

SpecRender == Init /\ [][NextRender]_vars

-----------------------------------------------------------------------------
(* Properties of resolve_language (SpecResolve) *)

\* The profile a call finds for a speaker: the stored one, or the one
\* get_speaker_profile creates.
ProfileOf(profiles, sid) ==
    IF sid \in DOMAIN profiles THEN profiles[sid] ELSE SpeakerProfile(sid)

Languages == {"en", "zh", "he"}

\* The token has a speaker, a language, and a confidence of at least 0.5
\* (an absent confidence counts as 1.0).
HighConfidence(token) ==
    /\ token.speaker # None
    /\ token.language # None
    /\ Get(token.language_confidence, DEFAULT_CONFIDENCE) >= LANGUAGE_CONFIDENCE_THRESHOLD

\* C1: for a token with a speaker, a language and language_confidence >= 0.5,
\* resolve_language returns that language and records exactly one sample on
\* that speaker's profile (that language's count +1, total_samples +1,
\* last_language set to it, every other count and every other profile as
\* before), whatever the profile held.
C1_HighConfidenceRecordsOneSample ==
    [][(op' = "resolve" /\ HighConfidence(call'.token[1])) =>
          LET token == call'.token[1]
              sid == token.speaker[1]
              lang == token.language[1]
              before == ProfileOf(speaker_profiles, sid)
              after == speaker_profiles'[sid]
          IN /\ call'.resolved = Some(lang)
             /\ DOMAIN speaker_profiles' = DOMAIN speaker_profiles \cup {sid}
             /\ after.total_samples = before.total_samples + 1
             /\ CountOf(after.language_counts, lang)
                    = CountOf(before.language_counts, lang) + 1
             /\ \A other \in Languages \ {lang} :
                    CountOf(after.language_counts, other)
                        = CountOf(before.language_counts, other)
             /\ after.last_language = Some(lang)
             /\ \A other \in DOMAIN speaker_profiles \ {sid} :
                    speaker_profiles'[other] = speaker_profiles[other]
      ]_vars

\* A call at confidence exactly 0.5 returned "zh" for a speaker whose earlier
\* samples were English.
C1_Witness ==
    /\ op = "resolve"
    /\ call.token # None
    /\ call.token[1].speaker = Some(1)
    /\ call.token[1].language = Some("zh")
    /\ call.token[1].language_confidence = Some(LANGUAGE_CONFIDENCE_THRESHOLD)
    /\ call.resolved = Some("zh")
    /\ 1 \in DOMAIN speaker_profiles
    /\ CountOf(speaker_profiles[1].language_counts, "en") = 2
    /\ CountOf(speaker_profiles[1].language_counts, "zh") = 1
    /\ speaker_profiles[1].last_language = Some("zh")

\* The token has a speaker and a confidence below 0.5, and the speaker's
\* profile holds a last_language.
LowConfidenceWithHistory(token, profiles) ==
    /\ token.speaker # None
    /\ token.language_confidence # None
    /\ token.language_confidence[1] < LANGUAGE_CONFIDENCE_THRESHOLD
    /\ token.speaker[1] \in DOMAIN profiles
    /\ profiles[token.speaker[1]].last_language # None

\* C2: for a token with language_confidence < 0.5 whose speaker's profile has
\* a last_language, resolve_language returns that last_language and leaves the
\* profile's total_samples, language_counts and last_language unchanged.
C2_LowConfidenceKeepsProfile ==
    [][(op' = "resolve" /\ LowConfidenceWithHistory(call'.token[1], speaker_profiles)) =>
          LET sid == call'.token[1].speaker[1]
              before == speaker_profiles[sid]
              after == speaker_profiles'[sid]
          IN /\ call'.resolved = before.last_language
             /\ after.total_samples = before.total_samples
             /\ after.language_counts = before.language_counts
             /\ after.last_language = before.last_language
      ]_vars

\* A low-confidence "zh" token was resolved to the speaker's last language
\* "en", and the profile still holds its one English sample only.
C2_Witness ==
    /\ op = "resolve"
    /\ call.token # None
    /\ call.token[1].speaker = Some(1)
    /\ call.token[1].language = Some("zh")
    /\ call.token[1].language_confidence = Some(LANGUAGE_CONFIDENCE_THRESHOLD - 1)
    /\ call.resolved = Some("en")
    /\ 1 \in DOMAIN speaker_profiles
    /\ speaker_profiles[1].total_samples = 1
    /\ speaker_profiles[1].language_counts = ("en" :> 1)
    /\ speaker_profiles[1].last_language = Some("en")

-----------------------------------------------------------------------------
(* Properties of the session (Spec) *)

\* C3: in every reachable state - after any sequence of resolutions, saves
\* and reloads - each speaker profile's total_samples is the sum of its
\* language_counts values.
C3_TotalIsSumOfCounts ==
    \A sid \in DOMAIN speaker_profiles :
        speaker_profiles[sid].total_samples
            = SumOver(speaker_profiles[sid].language_counts,
                      DOMAIN speaker_profiles[sid].language_counts)

\* A session reloaded from its state file holds a profile with samples in two
\* languages.
C3_Witness ==
    /\ op = "open"
    /\ resumed
    /\ \E sid \in DOMAIN speaker_profiles :
          /\ speaker_profiles[sid].total_samples = 2
          /\ DOMAIN speaker_profiles[sid].language_counts = {"en", "zh"}

\* C5: final_tokens is append-only during a run: across every step of the
\* receiver, the render loop, save_state and save_segment
\* the log before the step is a prefix of the log after it.  (Opening a
\* session starts another run.)
C5_LogIsAppendOnly ==
    [][op' # "open" => IsPrefix(final_tokens, final_tokens')]_vars

\* A token was appended to a non-empty log after a segment had been saved.
C5_Witness ==
    /\ op = "token"
    /\ Len(final_tokens) = 2
    /\ final_tokens[1] # final_tokens[2]
    /\ segment_count = 1

\* C6: save_state (alone or as the last step of save_segment) followed by
\* opening a new Session on the same directory reproduces final_tokens,
\* segment_count and, for every speaker id, language_counts, last_language and
\* total_samples, with was_resumed true.
C6_SaveThenOpenRoundTrip ==
    [][(op \in {"save_state", "save_segment"} /\ op' = "open") =>
          /\ final_tokens' = final_tokens
          /\ segment_count' = segment_count
          /\ DOMAIN speaker_profiles' = DOMAIN speaker_profiles
          /\ \A sid \in DOMAIN speaker_profiles :
                /\ speaker_profiles'[sid].language_counts
                       = speaker_profiles[sid].language_counts
                /\ speaker_profiles'[sid].last_language
                       = speaker_profiles[sid].last_language
                /\ speaker_profiles'[sid].total_samples
                       = speaker_profiles[sid].total_samples
          /\ resumed' = TRUE
      ]_vars

\* A session with two tokens, two speakers with samples and one saved segment
\* was reloaded.
C6_Witness ==
    /\ op = "open"
    /\ resumed
    /\ Len(final_tokens) = 2
    /\ segment_count = 1
    /\ DOMAIN speaker_profiles = {1, 2}
    /\ speaker_profiles[1].last_language = Some("en")
    /\ speaker_profiles[2].last_language = Some("zh")
    /\ state_file = StateObject(speaker_profiles, final_tokens, segment_count)

-----------------------------------------------------------------------------
(* Properties of the scroll window (SpecScroll) *)

\* C4: the scroll offset is always within [0, max(0, total_lines - page_size)],
\* whatever keys were handled and however the log grew between the per-poll
\* recomputations of total_lines.
C4_ScrollOffsetInRange ==
    /\ 0 <= scroll_offset
    /\ scroll_offset <= Max(0, scroll_total_lines - SCROLL_PAGE_SIZE)

\* In scroll mode, on a transcript longer than a page, the offset stands
\* strictly between the top and the last page.
C4_Witness ==
    /\ op = "poll"
    /\ scroll_mode
    /\ scroll_total_lines > SCROLL_PAGE_SIZE + 1
    /\ 0 < scroll_offset
    /\ scroll_offset < scroll_total_lines - SCROLL_PAGE_SIZE

-----------------------------------------------------------------------------
(* Properties of the state file (SpecExt) *)

\* The state file is there and is not what save_state writes: its text is no
\* JSON, its top level is no object, a speaker id key is no integer, or a
\* profile entry is no object.
InvalidStateFile(file) ==
    \/ file.kind \in {"unparseable", "array"}
    \/ /\ file.kind = "object"
       /\ \E i \in DOMAIN file.speaker_profiles :
             \/ ParseInt(file.speaker_profiles[i][1]) = None
             \/ file.speaker_profiles[i][2].kind # "object"

\* C7: a session opened on an invalid state file is fresh and empty:
\* final_tokens empty, no speaker profiles, segment_count 0, was_resumed false.
C7_InvalidFileGivesFreshSession ==
    (op = "open" /\ InvalidStateFile(state_file)) =>
        /\ final_tokens = << >>
        /\ speaker_profiles = << >>
        /\ segment_count = 0
        /\ resumed = FALSE

-----------------------------------------------------------------------------
(* Properties of get_speaker_type (SpecType) *)

\* C8: a profile with total_samples < 10 is unclassified, however its samples
\* are spread over the languages.
C8_FewSamplesUnclassified ==
    \A sid \in DOMAIN speaker_profiles :
        speaker_profiles[sid].total_samples < 10 =>
            get_speaker_type(speaker_profiles[sid]) = None

\* Nine samples, all English, and still no classification.
C8_Witness ==
    /\ op = "resolve"
    /\ 1 \in DOMAIN speaker_profiles
    /\ speaker_profiles[1].total_samples = 9
    /\ speaker_profiles[1].language_counts = ("en" :> 9)
    /\ get_speaker_type(speaker_profiles[1]) = None

-----------------------------------------------------------------------------
(* Properties of the renders and the queries (SpecRender) *)

\* tokens without the translations whose source language is the target
WithoutDropped(tokens) ==
    LET Kept(t) == ~IsDropped(t) IN SelectSeq(tokens, Kept)

\* C10: a translation token whose source_language is the target language is
\* dropped from every rendering path - each render of the token sequence
\* equals the render of the sequence without such tokens - and the queries
\* get_tokens_by_speaker and get_chinese_tokens return no such token.
C10_DroppedFromRendersAndQueries ==
    LET all_tokens == final_tokens \o non_final_tokens
    IN /\ _render_transcript_plain(final_tokens, speaker_profiles).text
              = _render_transcript_plain(WithoutDropped(final_tokens),
                                         speaker_profiles).text
       /\ _render_transcript(all_tokens, speaker_profiles).text
              = _render_transcript(WithoutDropped(all_tokens), speaker_profiles).text
       /\ render_plain_text(final_tokens, speaker_profiles).text
              = render_plain_text(WithoutDropped(final_tokens), speaker_profiles).text
       /\ run_simple_transcription(all_tokens, << >>, << >>).written
              = run_simple_transcription(WithoutDropped(all_tokens), << >>, << >>).written
       /\ \A t \in Range(get_chinese_tokens(final_tokens)) : ~IsDropped(t)
       /\ \A sid \in DOMAIN speaker_profiles :
              \A t \in Range(get_tokens_by_speaker(final_tokens, sid)) : ~IsDropped(t)

-----------------------------------------------------------------------------
(* The resume specification: a session is saved, its state file is found    *)
(* with a profile entry missing or damaged, and the session is opened and   *)
(* rendered again.                                                          *)

ResumeMaxLog == 1
ResumeMaxSegments == 1

ResumeTokens ==
    {Token(<<"a">>, Some(1), Some("en"), Some(9), Some(TRUE), "none", None),
     Token(<<"b">>, Some(2), Some("zh"), Some(9), Some(TRUE), "none", None)}

\* seq without its i-th element
RemoveAt(seq, i) == SubSeq(seq, 1, i - 1) \o SubSeq(seq, i + 1, Len(seq))

\* A state file that is valid JSON but lacks the profile entry of a speaker:
\* state.get("speaker_profiles", {}) restores the others.
TrimmedFiles(file) ==
    IF file.kind = "object"
    THEN {[file EXCEPT !.speaker_profiles = RemoveAt(@, i)] :
              i \in DOMAIN file.speaker_profiles}
    ELSE {}

NextResume ==
    \/ \E has_error, finished \in BOOLEAN : ReceiveMessage(has_error, finished)
    \/ \E token \in ResumeTokens : ProcessToken(token, ResumeMaxLog, ResumeMaxLog, 0)
    \/ NotifyTokens
    \/ \E keys \in {<< >>, <<"v">>} : Poll(keys)
    \/ SaveState
    \/ SaveSegment(ResumeMaxSegments)
    \/ Open
    \/ \E content \in TrimmedFiles(state_file) \cup DamagedFiles(state_file) :
           ReplaceStateFile(content)

SpecResume == Init /\ [][NextResume]_vars

\* C13: no render pass - the live render and the scroll content preparation
\* of the run loop, the plain-text render of save_segment - changes the token
\* log or the speaker-profile map, also in a session opened on a state file
\* whose token log mentions a speaker that has no stored profile.
C13_RenderIsReadOnly ==
    [][op' \in {"poll", "save_segment"} =>
          /\ final_tokens' = final_tokens
          /\ speaker_profiles' = speaker_profiles
      ]_vars

-----------------------------------------------------------------------------
(* The segment specification: the receiver and the audio producer fill the  *)
(* session, and save_segment runs in every environment: each file whose     *)
(* open can fail, each outcome of the encoder.                              *)

SegmentMaxLog == 1
MaxFrames == 1
SegmentMaxSegments == 1

SegmentTokens ==
    {Token(<<"a">>, Some(1), Some("en"), Some(9), Some(TRUE), "none", None)}

NextSegment ==
    \/ \E has_error, finished \in BOOLEAN : ReceiveMessage(has_error, finished)
    \/ \E token \in SegmentTokens : ProcessToken(token, SegmentMaxLog, SegmentMaxLog, 0)
    \/ NotifyTokens
    \/ AddAudioFrame(MaxFrames)
    \/ \E fault \in Faults, encoder \in Encoders :
           SaveSegmentEnv(SegmentMaxSegments, fault, encoder)
    \/ Open

SpecSegment == Init /\ [][NextSegment]_vars

-----------------------------------------------------------------------------
(* The run specification: a started session whose loop is left in every     *)
(* way, then the teardown and the final save.                               *)

RunMaxLog == 1
RunMaxSegments == 1

RunTokens ==
    {Token(<<"a">>, Some(1), Some("en"), Some(9), Some(TRUE), "none", None),
     Token(<<"b">>, Some(2), Some("zh"), Some(9), Some(TRUE), "none", None),
     Token(<< >>, Some(1), Some("en"), Some(9), Some(TRUE), "none", None)}

NextRun ==
    \/ \E has_error, finished \in BOOLEAN : ReceiveMessage(has_error, finished)
    \/ \E token \in RunTokens : ProcessToken(token, RunMaxLog, RunMaxLog, 0)
    \/ NotifyTokens
    \/ \E keys \in {<< >>, <<"q">>} : Poll(keys)
    \/ \E cause \in ExitCauses : LoopExit(cause)
    \/ Teardown
    \/ \E fault \in Faults, encoder \in Encoders : FinalSave(RunMaxSegments, fault, encoder)
    \/ Open

SpecRun == Init /\ [][NextRun]_vars

-----------------------------------------------------------------------------
(* The crash specification: a session receives tokens and checkpoints its   *)
(* state; the process can stop at any point of save_state, and the session  *)
(* is opened again.                                                         *)

CrashMaxLog == 2

CrashTokens ==
    {Token(<<"a">>, Some(1), Some("en"), Some(9), Some(TRUE), "none", None),
     Token(<<"b">>, Some(2), Some("zh"), Some(9), Some(TRUE), "none", None)}

NextCrash ==
    \/ \E has_error, finished \in BOOLEAN : ReceiveMessage(has_error, finished)
    \/ \E token \in CrashTokens : ProcessToken(token, CrashMaxLog, CrashMaxLog, 0)
    \/ NotifyTokens
    \/ run_pc # "crashed" /\ SaveState
    \/ \E point \in CrashPoints : SaveStateCrash(point)
    \/ Open

SpecCrash == Init /\ [][NextCrash]_vars

-----------------------------------------------------------------------------
(* The command specification: handlers are registered and lines of input    *)
(* are handled: each alias as written and in other letter cases, words that *)
(* are no alias, text without a leading slash, with and without arguments   *)
(* and surrounding whitespace.                                              *)

CommandWords ==
    DOMAIN ALIASES
    \cup {<<"/", "Q">>, <<"/", "S", "A", "V", "E">>, <<"/", "B", "g">>, <<"/", "V", "i", "e", "w">>,
          <<"/">>, <<"/", "x">>, <<"/", "s", "a", "v", "e", "s">>, <<"/", "q", "u">>,
          << >>, <<"q">>, <<"s", "a", "v", "e">>, <<"b", "/", "q">>}

CommandInputs ==
    {lead \o word \o rest \o trail :
        lead \in {<< >>, <<"\n", " ">>},
        word \in CommandWords,
        rest \in {<< >>, <<"\t", " ", "a", " ", "B">>},
        trail \in {<< >>, <<"\t">>}}

MaxHandlers == 1

NextCommand ==
    \/ \E cmd_type \in CommandTypes : Register(cmd_type, MaxHandlers)
    \/ \E input_str \in CommandInputs : HandleInput(input_str)

SpecCommand == Init /\ [][NextCommand]_vars

-----------------------------------------------------------------------------
(* The scenario specification: the receiver is fed the three tokens of the  *)
(* end-to-end scenario - "Hi " and "there" of speaker 1 in English, and a   *)
(* translation token of speaker 2 - in any order and number.  (The          *)
(* scenario's confidences 0.9 and 0.95 both count as 9 tenths.)             *)

ScenarioMaxLog == 3

HiToken ==
    Token(<<"H", "i", " ">>, Some(1), Some("en"), Some(9), Some(TRUE), "none", None)

ThereToken ==
    Token(<<"t", "h", "e", "r", "e">>, Some(1), Some("en"), Some(9), Some(TRUE), "none", None)

NiHaoToken ==
    Token(<<"ni", "hao">>, Some(2), Some("zh"), Some(9), Some(TRUE), "translation", Some("zh"))

ScenarioTokens == {HiToken, ThereToken, NiHaoToken}

NextScenario ==
    \/ \E has_error, finished \in BOOLEAN : ReceiveMessage(has_error, finished)
    \/ \E token \in ScenarioTokens :
           ProcessToken(token, ScenarioMaxLog, ScenarioMaxLog, 0)
    \/ NotifyTokens
    \/ Poll(<< >>)

SpecScenario == Init /\ [][NextScenario]_vars

\* The log holds exactly the scenario's three tokens, in the scenario's order.
ScenarioLog(tokens) ==
    /\ Len(tokens) = 3
    /\ tokens[1] = WithResolved(HiToken, "en")
    /\ tokens[2] = WithResolved(ThereToken, "en")
    /\ tokens[3].text = NiHaoToken.text
    /\ tokens[3].speaker = NiHaoToken.speaker
    /\ is_translation(tokens[3])

-----------------------------------------------------------------------------
(* Properties of token ingestion and of the assembler (SpecScenario) *)

\* C11: ingesting a token with translation_status = translation changes no
\* speaker profile's language_counts or total_samples; so once the log holds
\* the scenario's three tokens, speaker 1 has recorded 2 English samples and
\* speaker 2 has recorded none.
C11_TranslationsRecordNoSample ==
    [][(op' = "token" /\ is_translation(call'.token[1])) =>
          /\ \A sid \in DOMAIN speaker_profiles' :
                /\ speaker_profiles'[sid].language_counts
                       = ProfileOf(speaker_profiles, sid).language_counts
                /\ speaker_profiles'[sid].total_samples
                       = ProfileOf(speaker_profiles, sid).total_samples
          /\ ScenarioLog(final_tokens') =>
                /\ speaker_profiles'[1].language_counts = ("en" :> 2)
                /\ ProfileOf(speaker_profiles', 2).total_samples = 0
      ]_vars

\* the characters of a rich Text, without their styles
RECURSIVE TextOf(_)
TextOf(text) == IF text = << >> THEN << >> ELSE Head(text).text \o TextOf(Tail(text))

\* the non-blank characters of the tokens a render does not drop, in order
RECURSIVE ShownChars(_)
ShownChars(tokens) ==
    IF tokens = << >> THEN << >>
    ELSE (IF IsDropped(Head(tokens)) THEN << >>
          ELSE LET NonBlank(c) == ~IsSpace(c) IN SelectSeq(Head(tokens).text, NonBlank))
         \o ShownChars(Tail(tokens))

\* part, in its order, can be read off whole by skipping elements
RECURSIVE IsSubsequence(_, _)
IsSubsequence(part, whole) ==
    IF part = << >> THEN TRUE
    ELSE IF whole = << >> THEN FALSE
    ELSE IF Head(part) = Head(whole) THEN IsSubsequence(Tail(part), Tail(whole))
    ELSE IsSubsequence(part, Tail(whole))

\* text ends with tail
EndsWith(text, tail) ==
    Len(tail) <= Len(text) /\ SubSeq(text, Len(text) - Len(tail) + 1, Len(text)) = tail

\* C12: every render flavor flushes all its buffers at each speaker change and
\* at the end of input: the text of every token that is not dropped appears
\* in the output in arrival order, and the scenario's second paragraph, made
\* of a translation token only, still carries its translation run.
C12_EveryFlavorFlushesAllBuffers ==
    LET all_tokens == final_tokens \o non_final_tokens
        plain == _render_transcript_plain(final_tokens, speaker_profiles).text
        styled == TextOf(_render_transcript(all_tokens, speaker_profiles).text)
        session_text == render_plain_text(final_tokens, speaker_profiles).text
    IN /\ IsSubsequence(ShownChars(final_tokens), plain)
       /\ IsSubsequence(ShownChars(all_tokens), styled)
       /\ IsSubsequence(ShownChars(final_tokens), session_text)
       /\ ScenarioLog(final_tokens) =>
             /\ EndsWith(plain, <<" ", "(", "ni", "hao", ")">>)
             /\ EndsWith(styled, <<" ", "(", "ni", "hao", ")">>)
             /\ EndsWith(session_text, <<"ni", "hao">>)

\* C14: a pass of the run loop renders a (token log, overlay) pair that the
\* receiver had at a message boundary: the receiver is not between the
\* first final token of a message and its on_tokens call, and in particular
\* the log does not already hold a message's final tokens while the overlay
\* still holds the non-final tokens of the message before.
C14_RenderSeesMessageBoundary ==
    [][op' = "poll" =>
          /\ recv_pc = "tokens" => msg_final = << >>
          /\ ~(recv_pc = "tokens" /\ msg_final # << >> /\ non_final_tokens # << >>)
      ]_vars

ReceiverSteps == {"recv", "token", "notify"}

\* C16: a message with a non-null error_code makes the receiver surface
\* "<error_code> - <error_message>" and stop: the step changes neither the
\* token log nor the profiles, and the receiver takes no step after it (no
\* token of that message, no later message).
C16_ErrorEndsReceiver ==
    [][/\ (op' = "recv" /\ res'.error_code) =>
             /\ error_message' = "error_code - error_message"
             /\ recv_pc' = "done"
             /\ final_tokens' = final_tokens
             /\ speaker_profiles' = speaker_profiles
       /\ (recv_pc = "done" /\ res.error_code) => op' \notin ReceiverSteps
      ]_vars

C16_Witness ==
    /\ recv_pc = "done"
    /\ res.error_code
    /\ final_tokens # << >>
    /\ op = "poll"

\* C17: a message with finished set and no error_code is taken to its token
\* loop first: each of its tokens is resolved and the final ones are appended
\* to the log, on_tokens delivers its non-final tokens, and only then the
\* receiver ends; it surfaces no error and takes no step afterwards.
C17_FinishedEndsAfterTokens ==
    [][/\ (op' = "recv" /\ res'.finished /\ ~res'.error_code) =>
             /\ recv_pc' = "tokens"
             /\ error_message' = error_message
       /\ (recv_pc = "tokens" /\ res.finished /\ op' = "token") =>
             /\ recv_pc' = "tokens"
             /\ error_message' = error_message
             /\ call'.token # None
             /\ (call'.token[1].text # << >> /\ Get(call'.token[1].is_final, FALSE)) =>
                   final_tokens' = Append(final_tokens, WithResolved(call'.token[1], call'.resolved[1]))
       /\ (recv_pc = "tokens" /\ res.finished /\ op' = "notify") =>
             /\ recv_pc' = "done"
             /\ non_final_tokens' = msg_non_final
             /\ final_tokens' = final_tokens
             /\ error_message' = error_message
       /\ (recv_pc = "done" /\ ~res.error_code) => op' \notin ReceiverSteps
      ]_vars

C17_Witness ==
    /\ recv_pc = "done"
    /\ res.finished
    /\ ~res.error_code
    /\ msg_final # << >>
    /\ SubSeq(final_tokens, Len(final_tokens) - Len(msg_final) + 1, Len(final_tokens)) = msg_final
    /\ op = "poll"

\* The call reached a write that failed
WriteFailed(call_, frames) ==
    \/ call_.fault \in {"json", "txt", "state"}
    \/ call_.fault = "wav" /\ frames > 0

\* C18: a save_segment call that succeeds adds exactly 1 to segment_count,
\* names the segment with the new count (zero-padded to three digits),
\* writes the structured transcript with the whole token log, leaves a state
\* file whose segment_count and tokens equal the ones in memory, and returns
\* the path of the structured transcript.
C18_SaveSegmentCountsNamesAndPersists ==
    [][(op' = "save_segment" /\ ~saved'.raised) =>
          /\ segment_count' = segment_count + 1
          /\ saved'.base_name = <<"segment_">> \o Format03(segment_count') \o <<"_", "timestamp">>
          /\ segment_count' = 1 => SubSeq(saved'.base_name, 2, 4) = <<"0", "0", "1">>
          /\ saved'.json # None
          /\ saved'.json[1].segment = segment_count'
          /\ saved'.json[1].tokens = final_tokens'
          /\ state_file'.kind = "object"
          /\ state_file'.segment_count = segment_count'
          /\ state_file'.tokens = final_tokens'
          /\ saved'.returned = Some(saved'.base_name \o <<".", "json">>)
      ]_vars

C18_Witness ==
    /\ op = "save_segment"
    /\ ~saved.raised
    /\ segment_count = 1
    /\ final_tokens # << >>
    /\ saved.returned # None

\* C19: when the open of the structured transcript, of the plain-text file,
\* of the audio container or of the state file fails, save_segment raises to
\* its caller and returns no path.
C19_WriteFailureIsRaised ==
    [][(op' = "save_segment" /\ WriteFailed(saved', audio_frames)) =>
          /\ saved'.raised
          /\ saved'.returned = None
      ]_vars

C19_Witness ==
    /\ op = "save_segment"
    /\ saved.fault = "wav"
    /\ audio_frames > 0
    /\ saved.json # None
    /\ saved.raised

\* C20: with every write succeeding and audio to save, an encoder that does
\* not succeed - missing, timed out, non-zero exit, or not launched - does
\* not fail save_segment: the WAV file stays, save_state has run and the
\* path of the structured transcript is returned; the WAV file is gone only
\* after an encoder run that exited with 0.
C20_EncoderFailureIsNotFatal ==
    [][(op' = "save_segment" /\ saved'.fault = "none" /\ audio_frames > 0) =>
          /\ saved'.encoder # "ok" =>
                /\ ~saved'.raised
                /\ "wav" \in saved'.audio
                /\ state_file' = StateObject(speaker_profiles', final_tokens', segment_count')
                /\ saved'.returned = Some(saved'.base_name \o <<".", "json">>)
          /\ "wav" \notin saved'.audio => saved'.encoder = "ok"
      ]_vars

Released == ~running /\ ~is_running /\ ~ws_open /\ ~stream_open

\* C15: however the loop of a started session is left - quit key or stopped
\* transcriber (loop condition), keyboard interrupt, any other exception -
\* the run goes through the teardown, which raises the stop signal and
\* releases the connection and the capture stream, before it reaches the
\* final save; the final save calls save_segment exactly when final_tokens
\* is not empty, and the run ends only through it.
C15_TeardownThenFinalSave ==
    [][/\ (run_pc = "loop" /\ run_pc' # "loop") => run_pc' = "finally"
       /\ (run_pc = "finally" /\ run_pc' # "finally" /\ op' # "open") =>
             /\ run_pc' = "save"
             /\ Released'
       /\ op' = "final_save" =>
             /\ run_pc = "save"
             /\ Released
             /\ final_tokens # << >> <=>
                   /\ segment_count' = segment_count + 1
                   /\ saved'.base_name = BaseName(segment_count')
             /\ final_tokens = << >> => UNCHANGED <<segment_count, saved, state_file>>
       /\ (run_pc' = "exited" /\ run_pc # "exited") => op' = "final_save"
      ]_vars

C15_Witness ==
    /\ run_pc = "exited"
    /\ exit_cause = "exception"
    /\ final_tokens # << >>
    /\ saved.returned # None
    /\ Released

\* C21: save_segment empties the audio buffer, so that the audio file of a
\* segment holds the frames appended since the save before it; no other
\* step of a run takes frames out of the buffer.
C21_SaveSegmentClearsAudio ==
    [][/\ (op' = "save_segment" /\ ~saved'.raised) =>
             /\ saved'.audio # {} => saved'.frames = audio_frames
             /\ audio_frames' = 0
       /\ op' \notin {"save_segment", "open"} => audio_frames' >= audio_frames
      ]_vars

\* What a session resumes from: its log, its count and its profiles
Resumable(loaded) ==
    [final_tokens |-> loaded.final_tokens, segment_count |-> loaded.segment_count,
     speaker_profiles |-> loaded.speaker_profiles]

\* C22: wherever the process stops, the middle of save_state's write
\* included, a later open of the session resumes what the state file held
\* before (the last completed checkpoint) or what save_state was writing;
\* the token log of a completed checkpoint is never lost.
C22_CrashSafeCheckpoint ==
    [][op' = "crash" =>
          /\ \/ Resumable(_load_state(state_file')) = Resumable(_load_state(state_file))
             \/ state_file' = StateObject(speaker_profiles, final_tokens, segment_count)
          /\ state_file.kind = "object" =>
                IsPrefix(state_file.tokens, _load_state(state_file').final_tokens)
      ]_vars

\* C23: _enter_scroll_mode, from live mode: with an empty log it sets the
\* message "No transcript yet" and leaves the mode and the offset as they
\* were; with a non-empty log it switches to scroll mode, counts the lines
\* of a fresh plain render and puts the offset at the tail page - whatever
\* offset and line count an earlier visit to scroll mode has left.  A pass
\* of the run loop that ends in scroll mode has a non-empty log and the
\* line count of its render.
C23_EnterScrollMode ==
    /\ ~scroll_mode =>
          LET entered == _enter_scroll_mode(UiState, final_tokens)
              fresh == LineCount(_render_transcript_plain(final_tokens, speaker_profiles).text)
          IN IF final_tokens = << >>
             THEN /\ entered.error_message = "No transcript yet"
                  /\ ~entered.scroll_mode
                  /\ entered.scroll_offset = scroll_offset
                  /\ entered.scroll_total_lines = scroll_total_lines
             ELSE /\ entered.scroll_mode
                  /\ entered.scroll_total_lines = fresh
                  /\ entered.scroll_offset = Max(0, fresh - SCROLL_PAGE_SIZE)
    /\ (op = "poll" /\ scroll_mode) =>
          /\ final_tokens # << >>
          /\ scroll_total_lines
                 = LineCount(_render_transcript_plain(final_tokens, speaker_profiles).text)

\* Scroll mode was left with a stale line count, the log has grown since, and
\* the mode is entered again.
C23_Witness ==
    /\ op = "poll"
    /\ scroll_mode
    /\ Len(final_tokens) = 2
    /\ scroll_offset > 0
    /\ scroll_offset = scroll_total_lines - SCROLL_PAGE_SIZE

\* The command type that the words of the claim give to a lower-case word
TypeOfWord(word) ==
    IF word \in {<<"/", "b">>, <<"/", "b", "g">>} THEN "background"
    ELSE IF word \in {<<"/", "f", "g">>, <<"/", "f", "o", "r", "e", "g", "r", "o", "u", "n", "d">>} THEN "foreground"
    ELSE IF word \in {<<"/", "v">>, <<"/", "v", "i", "e", "w">>, <<"/", "s", "c", "r", "o", "l", "l">>} THEN "scroll"
    ELSE IF word = <<"/", "s", "a", "v", "e">> THEN "save"
    ELSE IF word \in {<<"/", "q">>, <<"/", "q", "u", "i", "t">>} THEN "quit"
    ELSE "unknown"

\* text is word, or word, whitespace and args
SplitsInto(text, word, args) ==
    /\ \A i \in DOMAIN word : ~IsSpace(word[i])
    /\ IsPrefix(word, text)
    /\ IF Len(word) = Len(text) THEN args = << >>
       ELSE /\ args # << >>
            /\ ~IsSpace(Head(args))
            /\ Len(args) < Len(text) - Len(word)
            /\ SubSeq(text, Len(text) - Len(args) + 1, Len(text)) = args
            /\ \A i \in (Len(word) + 1)..(Len(text) - Len(args)) : IsSpace(text[i])

\* C24: handle_input of a line: trimmed input that does not start with "/"
\* is no command (no record, no handler called); otherwise the record holds
\* the type of the first word taken case-insensitively (unknown for a word
\* that is no alias), the rest of the line as args and the trimmed input as
\* raw, and the handler registered for the type, if any, is called.
C24_CommandParsing ==
    op = "handle_input" =>
        LET last == commands.last
            text == strip(last.input)
        IN IF text = << >> \/ Head(text) # "/"
           THEN /\ last.command = None
                /\ ~last.was_command
                /\ last.invoked = None
           ELSE /\ last.command # None
                /\ last.was_command
                /\ last.command[1].raw = text
                /\ \E n \in 1..Len(text) :
                      /\ SplitsInto(text, SubSeq(text, 1, n), last.command[1].args)
                      /\ last.command[1].type = TypeOfWord(lower(SubSeq(text, 1, n)))
                /\ last.invoked = IF last.command[1].type \in commands._handlers
                                  THEN Some(last.command[1].type) ELSE None

C24_Witness ==
    /\ op = "handle_input"
    /\ commands.last.input = <<"\n", " ", "/", "S", "A", "V", "E", "\t", " ", "a", " ", "B", "\t">>
    /\ commands.last.command = Some([type |-> "save", args |-> <<"a", " ", "B">>, raw |-> <<"/", "S", "A", "V", "E", "\t", " ", "a", " ", "B">>])
    /\ commands.last.invoked = Some("save")

-----------------------------------------------------------------------------
(* C25: for a token with no speaker id, resolve_language returns the        *)
(* token's stated language, or "en" when the language is absent, and the    *)
(* call neither creates nor updates any speaker profile.                    *)

C25_NoSpeakerLeavesProfilesAlone ==
    [][(op' = "resolve" /\ call'.token # None /\ call'.token[1].speaker = None)
        => /\ call'.resolved =
                  Some(IF call'.token[1].language = None THEN "en"
                       ELSE call'.token[1].language[1])
           /\ speaker_profiles' = speaker_profiles]_vars

\* A call without speaker and without language has answered "en" while two
\* profiles with samples exist.
C25_Witness ==
    /\ op = "resolve"
    /\ call.token # None
    /\ call.token[1].speaker = None
    /\ call.token[1].language = None
    /\ call.resolved = Some("en")
    /\ DOMAIN speaker_profiles = {1, 2}
    /\ \A sid \in {1, 2} : speaker_profiles[sid].total_samples > 0

-----------------------------------------------------------------------------
(* The log specification: the receiver is fed tokens of every kind - final, *)
(* non-final, without text, a translation of English - next to the render   *)
(* loop, save_state and reopening.                                          *)

LogMaxLog == 2

LogTokens ==
    {Token(<<"a">>, Some(1), Some("en"), Some(9), Some(TRUE), "none", None),
     Token(<<"b">>, Some(1), Some("zh"), Some(4), Some(TRUE), "none", None),
     Token(<<"c">>, Some(1), Some("en"), Some(9), Some(FALSE), "none", None),
     Token(<< >>, Some(1), Some("en"), Some(9), Some(TRUE), "none", None),
     Token(<<"f">>, None, Some("zh"), Some(9), Some(TRUE), "translation", Some("en"))}

NextLog ==
    \/ \E has_error, finished \in BOOLEAN : ReceiveMessage(has_error, finished)
    \/ \E token \in LogTokens : ProcessToken(token, LogMaxLog, LogMaxLog, 1)
    \/ NotifyTokens
    \/ Poll(<< >>)
    \/ SaveState
    \/ Open

SpecLog == Init /\ [][NextLog]_vars

\* The token as it arrived, before token["resolved_language"] was set.
RawToken(token) ==
    Token(token.text, token.speaker, token.language, token.language_confidence,
          token.is_final, token.translation_status, token.source_language)

\* From the log `before` to the log `after` nothing logged has changed, and a
\* token that joined is final, has text, and carries the language that one
\* resolve_language call on the profiles of the time returned.
LoggedOnce(before, after, profiles) ==
    /\ IsPrefix(before, after)
    /\ Len(after) <= Len(before) + 1
    /\ \A i \in (Len(before) + 1)..Len(after) :
           /\ after[i].is_final = Some(TRUE)
           /\ after[i].text # << >>
           /\ after[i].resolved_language
                  = resolve_language(RawToken(after[i]), profiles).result

\* The log after one pass of the simple loop's body over the token.
SimpleLogAfter(token, profiles, log) ==
    SimpleStep(SimpleState(<< >>, None, FALSE, "RESET", << >>, profiles, log),
               token).final_tokens

\* C26: every token appended to the log during a run has is_final true and
\* non-empty text, and its resolved_language was assigned once, before the
\* append (it is the result of the one resolve_language call of that step,
\* whose sample is the only change to the profiles); no step of any activity
\* changes a logged token afterwards.  The same holds for one pass of the
\* simple loop from the same session.
C26_LoggedTokensAreFinalAndResolvedOnce ==
    [][/\ op' # "open" =>
             /\ LoggedOnce(final_tokens, final_tokens', speaker_profiles)
             /\ Len(final_tokens') > Len(final_tokens) =>
                    /\ op' = "token"
                    /\ speaker_profiles' =
                           resolve_language(RawToken(final_tokens'[Len(final_tokens')]),
                                            speaker_profiles).speaker_profiles
       /\ \A token \in LogTokens :
              LoggedOnce(final_tokens,
                         SimpleLogAfter(token, speaker_profiles, final_tokens),
                         speaker_profiles)]_vars

\* The low-confidence token "b" was logged with the speaker's earlier
\* language after "a", and a later message with a non-final token has been
\* delivered since.
C26_Witness ==
    /\ Len(final_tokens) = 2
    /\ final_tokens[1].text = <<"a">>
    /\ final_tokens[2].text = <<"b">>
    /\ final_tokens[2].language = Some("zh")
    /\ final_tokens[2].resolved_language = "en"
    /\ msg_final = << >>
    /\ non_final_tokens # << >>
    /\ op = "notify"

-----------------------------------------------------------------------------
(* Properties of the render flavors (SpecRender) *)

\* The tokens of the sequence that a render pass does not skip.
Shown(tokens) == SelectSeq(tokens, LAMBDA t : ~IsDropped(t))

\* The style of a run of the language when a non-final token is among its
\* contributors.
ProvisionalStyle(language) ==
    "dim italic " \o (IF language # None THEN _get_language_color(language[1])
                      ELSE DEFAULT_LANGUAGE_COLOR)

\* C27: a pending original/translation pair is rendered in final style if and
\* only if every token that contributed to it is final.  The log holds final
\* tokens only, so when the overlay opens with a token that is not a
\* translation - it starts a run of its own and only triggers the flush of
\* what is pending - every segment rendered from the log keeps the style it
\* has without the overlay; and the run that ends with a non-final original
\* token is rendered provisional.
C27_OnlyFinalPairsRenderFinal ==
    LET overlay == Shown(non_final_tokens)
        settled == _render_transcript(final_tokens, speaker_profiles).text
        live == _render_transcript(final_tokens \o non_final_tokens, speaker_profiles).text
    IN (overlay # << >> /\ ~is_translation(Head(overlay))) =>
          /\ IsPrefix(settled, live)
          /\ (Len(overlay) = 1 /\ lstrip(Head(overlay).text) # << >>) =>
                 live[Len(live)].style = ProvisionalStyle(Head(overlay).language)

\* C28: the two render flavors share the buffering logic: for any log of
\* finalized tokens with an empty overlay, the plain render and the live
\* styled render emit the same text - the same speaker labels, paragraph
\* breaks, original runs and parenthetical translation runs in the same
\* order - and differ in styling only.
C28_FlavorsEmitTheSameText ==
    non_final_tokens = << >> =>
        _render_transcript_plain(final_tokens, speaker_profiles).text
            = TextOf(_render_transcript(final_tokens, speaker_profiles).text)

\* The loop state of each flavor when it reaches the n-th token.
PlainBefore(tokens, n, profiles) ==
    PlainLoop(PlainState(<< >>, None, << >>, << >>, profiles, << >>), SubSeq(tokens, 1, n - 1))

StyledBefore(tokens, n, profiles) ==
    StyledLoop(StyledState(<< >>, None, << >>, << >>, None, TRUE, profiles, << >>),
               SubSeq(tokens, 1, n - 1))

\* The token is not skipped and is not a translation, and it arrives while a
\* translation buffer is pending.
EndsPhrase(st, token) ==
    ~IsDropped(token) /\ ~is_translation(token) /\ st.translation_buffer # << >>

\* The text of the run the token starts.
NewRun(st, token) == IF SpeakerChanged(st, token) THEN lstrip(token.text) ELSE token.text

\* Across the step the pending original run and then the parenthetical
\* translation run were emitted, and the buffers hold the new run only.
PairEmittedFirst(emitted, original, translation, emitted_after, original_after, translation_after, run) ==
    /\ IsPrefix(emitted \o original \o Parenthetical(translation), emitted_after)
    /\ translation_after = << >>
    /\ original_after = run

PlainPairFirst(st, token, after) ==
    PairEmittedFirst(st.parts, st.original_buffer, st.translation_buffer,
                     after.parts, after.original_buffer, after.translation_buffer,
                     NewRun(st, token))

StyledPairFirst(st, token, after) ==
    PairEmittedFirst(TextOf(st.text), st.original_buffer, st.translation_buffer,
                     TextOf(after.text), after.original_buffer, after.translation_buffer,
                     NewRun(st, token))

\* C29: when a non-translation token arrives while a translation buffer is
\* pending, in either flavor the pending original run and then its
\* translation run are emitted as a pair before any text of the new original
\* run, and both buffers are empty when the new run starts, so that the
\* translation never attaches to an original run that arrived after it.
C29_PhraseFlushedBeforeNewRun ==
    /\ \A n \in 1..Len(final_tokens) :
           EndsPhrase(PlainBefore(final_tokens, n, speaker_profiles), final_tokens[n]) =>
               PlainPairFirst(PlainBefore(final_tokens, n, speaker_profiles),
                              final_tokens[n],
                              PlainBefore(final_tokens, n + 1, speaker_profiles))
    /\ \A n \in 1..Len(final_tokens \o non_final_tokens) :
           EndsPhrase(StyledBefore(final_tokens \o non_final_tokens, n, speaker_profiles),
                      (final_tokens \o non_final_tokens)[n]) =>
               StyledPairFirst(StyledBefore(final_tokens \o non_final_tokens, n, speaker_profiles),
                               (final_tokens \o non_final_tokens)[n],
                               StyledBefore(final_tokens \o non_final_tokens, n + 1,
                                            speaker_profiles))

TextBefore(tokens, n, profiles) ==
    TextLoop(TextState(<< >>, None, None, FALSE, profiles), SubSeq(tokens, 1, n - 1))

\* The paragraph break that precedes every label but the first.
BreakBefore(st) == IF st.current_speaker # None THEN <<"\n", "\n">> ELSE << >>

\* Both pending buffers as a flush emits them.
Flushed(original, translation) ==
    original \o (IF translation # << >> THEN Parenthetical(translation) ELSE << >>)

\* One token in a flavor with buffers, from what was emitted before it to
\* what is emitted after it.  At a speaker change: the flushed buffers, the
\* break, the label, and the stripped chunk as the only buffered text.
\* Otherwise no label: at most the flush of a completed phrase.
BufferedLabelStep(emitted, st, token, emitted_after, after) ==
    IF IsDropped(token)
    THEN emitted_after = emitted /\ after.current_speaker = st.current_speaker
    ELSE IF SpeakerChanged(st, token)
    THEN /\ emitted_after =
                emitted \o Flushed(st.original_buffer, st.translation_buffer)
                        \o BreakBefore(st)
                        \o <<SpeakerHeader(after.profiles[token.speaker[1]])>>
         /\ after.current_speaker = token.speaker
         /\ after.original_buffer
                = (IF is_translation(token) THEN << >> ELSE lstrip(token.text))
         /\ after.translation_buffer
                = (IF is_translation(token) THEN lstrip(token.text) ELSE << >>)
    ELSE /\ emitted_after \in
                {emitted, emitted \o st.original_buffer \o Parenthetical(st.translation_buffer)}
         /\ after.current_speaker = st.current_speaker

\* What render_plain_text may put between a label, or the text before, and
\* the token's text.
TextTags(token) ==
    {<< >>, <<"\n", LanguageTag(token.language), " ">>,
     <<"\n", " ", " ", "->", " ", LanguageTag(token.language), " ">>}

\* One token in render_plain_text.
TextLabelStep(st, token, after) ==
    IF is_translation(token) /\ token.source_language = Some("en")
    THEN after.text_parts = st.text_parts /\ after.current_speaker = st.current_speaker
    ELSE IF SpeakerChanged(st, token)
    THEN /\ \E tag \in TextTags(token) :
                after.text_parts =
                    st.text_parts \o BreakBefore(st)
                        \o <<get_label(after.profiles[token.speaker[1]]) \o ":">>
                        \o tag \o lstrip(token.text)
         /\ after.current_speaker = token.speaker
    ELSE /\ \E tag \in TextTags(token) : \E chunk \in {token.text, lstrip(token.text)} :
                after.text_parts = st.text_parts \o tag \o chunk
         /\ after.current_speaker = st.current_speaker

PlainLabels(tokens, profiles) ==
    \A n \in 1..Len(tokens) :
        BufferedLabelStep(PlainBefore(tokens, n, profiles).parts,
                          PlainBefore(tokens, n, profiles), tokens[n],
                          PlainBefore(tokens, n + 1, profiles).parts,
                          PlainBefore(tokens, n + 1, profiles))

StyledLabels(tokens, profiles) ==
    \A n \in 1..Len(tokens) :
        BufferedLabelStep(TextOf(StyledBefore(tokens, n, profiles).text),
                          StyledBefore(tokens, n, profiles), tokens[n],
                          TextOf(StyledBefore(tokens, n + 1, profiles).text),
                          StyledBefore(tokens, n + 1, profiles))

TextLabels(tokens, profiles) ==
    \A n \in 1..Len(tokens) :
        TextLabelStep(TextBefore(tokens, n, profiles), tokens[n],
                      TextBefore(tokens, n + 1, profiles))

\* C30: in every render a speaker label is emitted exactly when a token that
\* is not dropped has a non-null speaker different from the current speaker:
\* the pending buffers are flushed before the label, every label but the
\* first is preceded by a paragraph break, the first text chunk after the
\* label has its leading whitespace stripped, and a token with a null
\* speaker (or the current one) continues the current paragraph.
C30_SpeakerLabels ==
    /\ PlainLabels(final_tokens, speaker_profiles)
    /\ StyledLabels(final_tokens \o non_final_tokens, speaker_profiles)
    /\ TextLabels(final_tokens, speaker_profiles)

-----------------------------------------------------------------------------
(* Properties of one inbound message (SpecLog) *)

\* C31: processing one inbound message appends exactly its final tokens with
\* non-empty text to the token log, in message order, and sets the overlay
\* to exactly its non-final tokens with non-empty text, discarding the
\* overlay of before.  Step by step: a token without text changes neither
\* the log, the message's lists nor any profile; a final token goes to the
\* end of the log and a non-final one to the end of the message's non-final
\* list, never to the log; the lists start empty with the message, and the
\* callback replaces the overlay by the message's non-final list while the
\* log ends with the message's final tokens.
C31_MessageFeedsLogAndOverlay ==
    [][/\ (op' = "recv" /\ ~res'.error_code) =>
             /\ msg_final' = << >> /\ msg_non_final' = << >>
             /\ UNCHANGED <<final_tokens, non_final_tokens, speaker_profiles>>
       /\ (op' = "token" /\ call'.token # None) =>
             /\ non_final_tokens' = non_final_tokens
             /\ call'.token[1].text = << >> =>
                    UNCHANGED <<final_tokens, msg_final, msg_non_final, speaker_profiles>>
             /\ (call'.token[1].text # << >> /\ call'.token[1].is_final = Some(TRUE)) =>
                    /\ final_tokens' =
                           Append(final_tokens, WithResolved(call'.token[1], call'.resolved[1]))
                    /\ msg_final' =
                           Append(msg_final, WithResolved(call'.token[1], call'.resolved[1]))
                    /\ msg_non_final' = msg_non_final
             /\ (call'.token[1].text # << >> /\ call'.token[1].is_final # Some(TRUE)) =>
                    /\ msg_non_final' =
                           Append(msg_non_final, WithResolved(call'.token[1], call'.resolved[1]))
                    /\ UNCHANGED <<final_tokens, msg_final>>
       /\ op' = "notify" =>
             /\ non_final_tokens' = msg_non_final
             /\ \A i \in 1..Len(non_final_tokens') :
                    /\ non_final_tokens'[i].is_final # Some(TRUE)
                    /\ non_final_tokens'[i].text # << >>
             /\ EndsWith(final_tokens, msg_final)
             /\ UNCHANGED <<final_tokens, speaker_profiles>>]_vars

\* A message that held a final and a non-final token has been delivered
\* after an earlier message had put a token in the log.
C31_Witness ==
    /\ op = "notify"
    /\ Len(final_tokens) = 2
    /\ Len(msg_final) = 1
    /\ msg_final[1] = final_tokens[2]
    /\ Len(non_final_tokens) = 1
    /\ non_final_tokens = msg_non_final

-----------------------------------------------------------------------------
(* Isolation of speakers in resolve_language (SpecResolve) *)

\* The call changes at most the profile of the token's speaker.
TouchesOwnProfileOnly(token, profiles, after) ==
    /\ DOMAIN after \subseteq
           DOMAIN profiles \cup (IF token.speaker = None THEN {} ELSE {token.speaker[1]})
    /\ \A sid \in DOMAIN profiles :
           Some(sid) # token.speaker => after[sid] = profiles[sid]

\* The result for the token and its speaker's profile are the same whether
\* or not the other token, of another speaker, was resolved just before.
UnmovedBy(token, other, profiles) ==
    /\ resolve_language(token, resolve_language(other, profiles).speaker_profiles).result
           = resolve_language(token, profiles).result
    /\ resolve_language(token, resolve_language(other, profiles).speaker_profiles)
               .speaker_profiles[token.speaker[1]]
           = resolve_language(token, profiles).speaker_profiles[token.speaker[1]]

\* C32: resolution is deterministic and isolated per speaker.  From every
\* profile map that calls have produced, resolving a token of speaker s
\* changes at most the profile of s, and the resolved language and the
\* resulting profile of s are not changed by resolving a token of any other
\* speaker (or of no speaker) in between; so they depend on the ordered
\* sequence of s's own tokens only.
C32_ResolutionIsolatedPerSpeaker ==
    \A token \in ResolveTokens :
        /\ TouchesOwnProfileOnly(token, speaker_profiles,
                                 resolve_language(token, speaker_profiles).speaker_profiles)
        /\ token.speaker # None =>
               \A other \in ResolveTokens :
                   other.speaker # token.speaker => UnmovedBy(token, other, speaker_profiles)

\* A low-confidence token of speaker 1 was resolved to speaker 1's own
\* language "en" although speaker 2's last language is "zh" and speaker 2
\* has more samples.
C32_Witness ==
    /\ op = "resolve"
    /\ call.token # None
    /\ call.token[1].speaker = Some(1)
    /\ call.token[1].language = Some("zh")
    /\ call.token[1].language_confidence = Some(4)
    /\ call.resolved = Some("en")
    /\ DOMAIN speaker_profiles = {1, 2}
    /\ speaker_profiles[2].last_language = Some("zh")
    /\ speaker_profiles[2].total_samples > speaker_profiles[1].total_samples

\* C33: for a speaker whose profile has no last_language yet, a token with
\* language_confidence < 0.5 and a stated language is recorded as a sample
\* (its count +1, total_samples +1, last_language set) and its stated
\* language is returned; a token with no stated language gives "en" and
\* records no sample.
C33_NoHistoryFallsThrough ==
    [][(/\ op' = "resolve"
        /\ call'.token # None
        /\ call'.token[1].speaker # None
        /\ ProfileOf(speaker_profiles, call'.token[1].speaker[1]).last_language = None) =>
          LET token == call'.token[1]
              sid == token.speaker[1]
              before == ProfileOf(speaker_profiles, sid)
              after == speaker_profiles'[sid]
          IN /\ (/\ token.language # None
                 /\ token.language_confidence # None
                 /\ token.language_confidence[1] < LANGUAGE_CONFIDENCE_THRESHOLD) =>
                    /\ call'.resolved = token.language
                    /\ after.total_samples = before.total_samples + 1
                    /\ CountOf(after.language_counts, token.language[1])
                           = CountOf(before.language_counts, token.language[1]) + 1
                    /\ after.last_language = token.language
             /\ token.language = None =>
                    /\ call'.resolved = Some("en")
                    /\ after = before
      ]_vars

\* The first token of speaker 2, of low confidence, was recorded and its
\* language returned, while speaker 1 already had a history.
C33_Witness ==
    /\ op = "resolve"
    /\ call.token # None
    /\ call.token[1].speaker = Some(2)
    /\ call.token[1].language = Some("zh")
    /\ call.token[1].language_confidence = Some(4)
    /\ call.resolved = Some("zh")
    /\ DOMAIN speaker_profiles = {1, 2}
    /\ speaker_profiles[2].total_samples = 1
    /\ speaker_profiles[2].last_language = Some("zh")
    /\ speaker_profiles[1].last_language = Some("en")

-----------------------------------------------------------------------------
(* The stop specification: the three activities of a started run - the      *)
(* receiver, the audio producer, the input thread and run loop - with a     *)
(* user who may press q or interrupt, a server that may close or fail, and  *)
(* the final save.  Each thread gets to run (weak fairness on its steps):   *)
(* the threads sleep at most 0.1 s per pass, a message has finitely many    *)
(* tokens, and closing the connection and the stream ends a blocked recv()  *)
(* or read().                                                               *)

StopMaxLog == 1
StopMaxFrames == 1
StopMaxSegments == 1

StopTokens ==
    {Token(<<"a">>, Some(1), Some("en"), Some(9), Some(TRUE), "none", None),
     Token(<<"c">>, Some(1), Some("zh"), Some(9), Some(FALSE), "none", None)}

NextStop ==
    \/ \E has_error, finished \in BOOLEAN : ReceiveMessage(has_error, finished)
    \/ \E token \in StopTokens : ProcessToken(token, StopMaxLog, StopMaxLog, 1)
    \/ NotifyTokens
    \/ \E outcome \in ReceiverOutcomes : ReceiverEnds(outcome)
    \/ MicRead(StopMaxFrames)
    \/ MicFrame
    \/ MicEnds
    \/ InputThreadEnds
    \/ \E keys \in {<< >>, <<"q">>} : Poll(keys)
    \/ \E cause \in ExitCauses : LoopExit(cause)
    \/ Teardown
    \/ FinalSave(StopMaxSegments, "none", "ok")

FairThreads ==
    /\ WF_vars(NotifyTokens)
    /\ WF_vars(ReceiverEnds("condition"))
    /\ WF_vars(MicFrame)
    /\ WF_vars(MicEnds)
    /\ WF_vars(InputThreadEnds)
    /\ WF_vars(LoopExit("condition"))
    /\ WF_vars(Teardown)

SpecStop == Init /\ [][NextStop]_vars /\ FairThreads

\* C34: once the stop signal is raised - the run loop's flag cleared, or
\* Transcriber.stop called - the audio producer, the receiver, the input
\* thread and the run loop each eventually terminate, a receiver blocked in
\* recv() included, and no step after Transcriber.stop surfaces an error.
C34_StopEndsEveryActivity ==
    /\ (~running \/ ~is_running) ~>
           (recv_pc = "done" /\ mic_pc = "done" /\ input_pc = "done" /\ run_pc # "loop")
    /\ [][~is_running => error_message' = error_message]_vars

\* After the stop, the receiver was the last to end, from its wait for the
\* next message, and the user had pressed q.
C34_Witness ==
    /\ op = "recv_end"
    /\ ~is_running
    /\ exit_cause = "condition"
    /\ recv_pc = "done" /\ mic_pc = "done" /\ input_pc = "done"
    /\ run_pc = "exited"
    /\ error_message = ""

-----------------------------------------------------------------------------
(* The start specification: NegotiationUI.run from before                   *)
(* Transcriber.start, with no thread started and no resource acquired, and  *)
(* then the run of the stop specification.                                  *)

InitStart ==
    /\ speaker_profiles = << >>
    /\ final_tokens = << >>
    /\ segment_count = 0
    /\ audio_frames = 0
    /\ resumed = FALSE
    /\ state_file = NoFile
    /\ saved = NoSaved
    /\ recv_pc = "idle"
    /\ res = NoMessage
    /\ msg_final = << >>
    /\ msg_non_final = << >>
    /\ non_final_tokens = << >>
    /\ scroll_mode = FALSE
    /\ scroll_offset = 0
    /\ scroll_total_lines = 0
    /\ error_message = ""
    /\ running = TRUE
    /\ run_pc = "start"
    /\ exit_cause = ""
    /\ is_running = FALSE
    /\ ws_open = FALSE
    /\ stream_open = FALSE
    /\ commands = NoCommands
    /\ mic_pc = "idle"
    /\ input_pc = "idle"
    /\ audio_open = FALSE
    /\ started = "none"
    /\ op = "init"
    /\ call = NoCall

NextStart ==
    \/ \E outcome \in StartOutcomes : Start(outcome)
    \/ NextStop

SpecStart == InitStart /\ [][NextStart]_vars

\* C35: when Transcriber.start has failed, on any path, the audio handle, the
\* capture stream and the connection are released, is_running is false and
\* no worker thread has been started.
C35_FailedStartReleasesEverything ==
    started \in {"failed", "raised"} =>
        /\ ~audio_open /\ ~stream_open /\ ~ws_open
        /\ ~is_running
        /\ mic_pc = "idle" /\ recv_pc = "idle"

-----------------------------------------------------------------------------
(* The final-save specification: the run of the stop specification with     *)
(* save_segment taken statement by statement.  The receiver and the audio   *)
(* producer are daemon threads that NegotiationUI.run and Transcriber.stop  *)
(* never join, so their steps interleave with the statements of the save.   *)

RaceMaxLog == 2
RaceMaxFrames == 1
RaceMaxSegments == 1

RaceTokens ==
    {Token(<<"a">>, Some(1), Some("en"), Some(9), Some(TRUE), "none", None),
     Token(<<"b">>, Some(2), Some("zh"), Some(9), Some(TRUE), "none", None)}

NextRace ==
    \/ \E has_error, finished \in BOOLEAN : ReceiveMessage(has_error, finished)
    \/ \E token \in RaceTokens : ProcessToken(token, RaceMaxLog, RaceMaxLog, 1)
    \/ NotifyTokens
    \/ \E outcome \in ReceiverOutcomes : ReceiverEnds(outcome)
    \/ MicRead(RaceMaxFrames)
    \/ MicFrame
    \/ MicEnds
    \/ InputThreadEnds
    \/ \E keys \in {<< >>, <<"q">>} : Poll(keys)
    \/ \E cause \in ExitCauses : LoopExit(cause)
    \/ Teardown
    \/ FinalSaveTranscript(RaceMaxSegments)
    \/ FinalSaveText
    \/ FinalSaveAudio
    \/ FinalSaveStateFile

SpecRace == Init /\ [][NextRace]_vars

\* C36: the structured transcript, the plain text and the state file that one
\* save_segment call of the final save wrote hold the same token log and the
\* same profiles: the transcript and the text are those of the log and the
\* profiles in the state file.
C36_FinalSaveWritesOneSnapshot ==
    (run_pc = "exited" /\ saved.returned # None) =>
        LET tokens == state_file.tokens
            profiles == LoadProfiles(state_file.speaker_profiles, << >>).profiles
            session == [speaker_profiles |-> profiles, final_tokens |-> tokens]
        IN /\ saved.json = Some(SegmentJson(session, state_file.segment_count))
           /\ saved.txt = Some(render_plain_text(tokens, profiles).text)

\* C37: once the receiver has terminated - after a finished message, a
\* message with an error code or a transport error - is_running eventually
\* becomes false, with no key pressed and no interrupt needed.
C37_ReceiverEndClearsIsRunning == (recv_pc = "done") ~> ~is_running

\* C38: a save_segment call that completes adds one to segment_count and a
\* call that fails partway leaves segment_count as it was, so that the count
\* is the count restored at open plus the number of successful calls.
C38_FailedSaveLeavesTheCount ==
    [][op' = "save_segment" =>
          segment_count' = IF saved'.raised THEN segment_count ELSE segment_count + 1]_vars

\* C39: once get_speaker_type has returned a classification for a profile,
\* it returns a classification (not None) after every further recorded sample.
C39_ClassificationIsNeverLost ==
    [][\A sid \in DOMAIN speaker_profiles :
          get_speaker_type(speaker_profiles[sid]) # None =>
              /\ sid \in DOMAIN speaker_profiles'
              /\ get_speaker_type(speaker_profiles'[sid]) # None]_vars

\* A classified speaker, at the threshold with eight samples of one language
\* and two of the other, has had an eleventh sample of another language
\* recorded and is classified still.
C39_Witness ==
    /\ op = "resolve"
    /\ 1 \in DOMAIN speaker_profiles
    /\ speaker_profiles[1].total_samples = MIN_SAMPLES_FOR_LABELING + 1
    /\ speaker_profiles[1].last_language = Some("zh")
    /\ CountOf(speaker_profiles[1].language_counts, "en") = 8
    /\ CountOf(speaker_profiles[1].language_counts, "zh") = 3
    /\ get_speaker_type(speaker_profiles[1]) = Some("Bilingual")

=============================================================================
